---- MODULE Spec2Model ----
(***************************************************************************)
(* Model of the task-overlay application's theme coordinator               *)
(* (ThemeManager), the event bus it listens on and the settings store it   *)
(* persists to.                                                            *)
(*                                                                         *)
(* ThemeManager.activateTheme and ThemeManager.deactivateTheme are async   *)
(* functions: every `await` is a point where the single JavaScript thread  *)
(* may run another handler, so each call is a small process whose position *)
(* (pc) is part of the state.  All other operations are synchronous and    *)
(* are one action each.                                                    *)
(***************************************************************************)
EXTENDS Integers, Sequences, FiniteSets, TLC

\* ------------------------------------------------------------------ bounds

\* Lifecycle calls (activateTheme / deactivateTheme) suspended at the same time.
MaxInFlight == 2


\* ------------------------------------------------------------ value spaces

Null == "null"

\* Theme names a caller may pass; "ghost" is never offered for registration.
ThemeNames == {"default", "farming"}
CallNames == ThemeNames \cup {"ghost"}

\* The lifecycle methods registerTheme requires of a main module.
\* src/src/core/todoist-service.js:1124
requiredMethods == {"initialize", "activate", "deactivate"}

\* Main modules offered to registerTheme, by the methods they expose.
\*   mDefault : DefaultTheme (every typed handler, no catch-all)
\*   mFarming : FarmingTheme, a game theme class: the lifecycle methods and
\*              the updateSettings it inherits, no event handler
\*   mOther   : a module written to the theme interface with one typed
\*              handler and the onEvent catch-all, also offered under an
\*              already-used name
\*   mBroken  : a module without deactivate
ModuleIds == {"mDefault", "mFarming", "mOther", "mBroken"}

ModuleMethods(m) ==
  CASE m = "mDefault" -> requiredMethods \cup
                         {"updateSettings", "onTasksLoaded", "onCurrentTask",
                          "onTaskCompleted", "onTaskAdded", "onPomodoroTick",
                          "onPomodoroCompleted", "onWorkStarted",
                          "onBreakStarted", "onThemeSettingsChanged",
                          "onRendererEvent"}
    [] m = "mFarming" -> requiredMethods \cup {"updateSettings"}
    [] m = "mOther"   -> requiredMethods \cup {"onTasksLoaded", "onEvent"}
    [] m = "mBroken"  -> {"initialize", "activate"}
    [] OTHER          -> {}

\* Values a config's mainModule field may hold besides a module object.
NoModule == "undefined"
NotObject == "function"

\* Settings maps: partial maps from keys to values.
SettingKeys == {"x", "autoStartNextPhase"}
SettingValues == {1, 2}
EmptyMap == [k \in {} |-> 0]
SettingsMaps == UNION {[D -> SettingValues] : D \in SUBSET SettingKeys}

\* The patches handed to updateThemeSettings: a setting of the theme's own
\* and the DefaultTheme's autoStartNextPhase.
Patches == { [x |-> 2], [autoStartNextPhase |-> TRUE] }

\* { ...a, ...b }
Spread(a, b) ==
  [k \in (DOMAIN a) \cup (DOMAIN b) |-> IF k \in DOMAIN b THEN b[k] ELSE a[k]]

\* Theme configurations handed to registerTheme.  "" is a missing field.
Config(n, d, m, s) ==
  [name |-> n, displayName |-> d, mainModule |-> m, settings |-> s]

Configs ==
  { Config("default", "Minimal", "mDefault", [x |-> 1]),
    Config("farming", "Farming", "mFarming", EmptyMap),
    Config("default", "Other", "mOther", EmptyMap),
    Config("", "Nameless", "mOther", EmptyMap),
    Config("farming", "", "mFarming", EmptyMap),
    Config("farming", "Farming", NoModule, EmptyMap),
    Config("farming", "Farming", NotObject, EmptyMap),
    Config("farming", "Farming", "mBroken", EmptyMap) }

\* What a call into a theme's code can do.
Outcomes == {"ok", "throw"}

VARIABLES
  themes,        \* ThemeManager.themes: the registered themes, in insertion order
  activeTheme,   \* ThemeManager.activeTheme: the name of the active theme, or Null
  store,         \* the settings store's 'theme' entry
  globalWindow,  \* whether global.mainWindow exists and is not destroyed
  status,        \* per main module, where its own lifecycle stands
  calls,         \* the activateTheme / deactivateTheme calls suspended at an await
  last,          \* the operation that returned in the latest step (NoOp when
                 \* none did): what it was given and found, the calls it made
                 \* into themes, what it sent and returned
  pomodoro,      \* PomodoroService: its state object and whether timerInterval is set
  todoist,       \* TodoistService: tasks (their ids), currentTaskIndex, apiKey
  serviceStore,  \* the settings store's 'pomodoro' and 'todoist' entries
  watch,         \* what has happened to the timer since it was last stopped / reset
  requests,      \* the HTTP requests of the TodoistService still without a response
  defaultTheme,  \* the DefaultTheme instance: its settings and the timeouts it
                 \* has set that have not fired yet
  gameTheme,     \* the game theme instance of the renderer: its frame loops, its
                 \* gameLoopId, its style elements in document.head
  rendererThemes, \* the renderer-side ThemeManager: its themes map, its
                 \* activeTheme and its activateTheme calls suspended at an await
  surface,       \* the display surface's ThemeAPI: currentTheme, themeRenderer,
                 \* whether the document has a theme container, what the
                 \* container and the window hold, imports pending, where
                 \* its initialize() stands
  bus            \* an event bus with handlers subscribed and unsubscribed at run time

\* What the theme modules keep themselves, the renderer-side coordinator and
\* display surface, and the bus with its run-time subscriptions.
moduleVars == <<defaultTheme, gameTheme, rendererThemes, surface, bus>>

\* The state of the two core services and what is kept about them, and the
\* theme modules' own state.
serviceVars == <<pomodoro, todoist, serviceStore, watch, requests, moduleVars>>

\* The same without the DefaultTheme instance, for the steps that call into it.
coreVars == <<pomodoro, todoist, serviceStore, watch, requests>>
rendererVars == <<gameTheme, rendererThemes, surface, bus>>

vars == <<themes, activeTheme, store, globalWindow, status, calls, last,
          pomodoro, todoist, serviceStore, watch, requests, defaultTheme,
          gameTheme, rendererThemes, surface, bus>>

\* --------------------------------------------------------------- registry

\* Map.prototype.has / get on ThemeManager.themes.
ThemesHas(n) == \E i \in 1..Len(themes) : themes[i].name = n

ThemesGet(n) == themes[CHOOSE i \in 1..Len(themes) : themes[i].name = n]

\* The main module of the active theme (activeTheme.mainModule).
ActiveModule == ThemesGet(activeTheme).mainModule

\* One call into a theme's main module.
Invocation(m, method, args) == [mod |-> m, method |-> method, args |-> args]

\* _validateThemeConfig without the check of the lifecycle methods.
ValidateThemeConfigFieldsOnly(config) ==
  /\ config.name # ""
  /\ config.displayName # ""
  /\ config.mainModule # NoModule
  /\ config.mainModule # NotObject

\* ThemeManager._validateThemeConfig: the three required fields are truthy,
\* mainModule is an object, and it has the three lifecycle functions.
ValidateThemeConfig(config) ==
  /\ config.name # ""
  /\ config.displayName # ""
  /\ config.mainModule # NoModule
  /\ config.mainModule # NotObject
  /\ requiredMethods \subseteq ModuleMethods(config.mainModule)

\* The entry registerTheme stores in the map.
ThemeData(config) ==
  [name |-> config.name, displayName |-> config.displayName,
   mainModule |-> config.mainModule, settings |-> config.settings]

\* ------------------------------------------------------------ settings store

\* SettingsService.getThemeSettings().currentTheme, with the store's default.
StoredCurrentTheme ==
  IF store.currentTheme = Null THEN "default" ELSE store.currentTheme

\* settingsService.getThemeSettings().themeSettings?.[name] || {}
SavedSettings(st, n) ==
  IF n \in DOMAIN st.themeSettings THEN st.themeSettings[n] ELSE EmptyMap

\* ThemeManager.getThemeSettings(themeName) read against store st: the
\* theme's registered settings overlaid with what the store holds for it.
\* A Null themeName stands for the omitted argument (the active theme).
GetThemeSettingsIn(st, active, themeName) ==
  LET n == IF themeName # Null THEN themeName ELSE active
  IN IF n = Null \/ ~ThemesHas(n)
       THEN EmptyMap
       ELSE Spread(ThemesGet(n).settings, SavedSettings(st, n))

GetThemeSettings(themeName) == GetThemeSettingsIn(store, activeTheme, themeName)

\* store.set(`theme.themeSettings.${themeName}`, settings): the entry for the
\* theme becomes exactly the object passed in.
StoreSetThemeSettings(st, n, settings) ==
  [st EXCEPT !.themeSettings =
     [k \in (DOMAIN st.themeSettings) \cup {n} |->
        IF k = n THEN settings ELSE st.themeSettings[k]]]

\* store.set('theme.currentTheme', themeName)
StoreSetCurrentTheme(st, n) == [st EXCEPT !.currentTheme = n]

\* ----------------------------------------------------------------- event bus

TASKS_LOADED == "todoist:tasks:loaded"
TASK_COMPLETED == "todoist:task:completed"
TASK_ADDED == "todoist:task:added"
API_ERROR == "todoist:api:error"
TIMER_TICK == "pomodoro:timer:tick"
TIMER_COMPLETED == "pomodoro:timer:completed"
WORK_STARTED == "pomodoro:work:started"
BREAK_STARTED == "pomodoro:break:started"
THEME_CHANGED == "settings:theme:changed"
SETTINGS_CHANGED == "settings:changed"

\* The bus events ThemeManager._subscribeToEvents subscribes to, with the
\* name each is forwarded under.
ForwardedAs(e) ==
  CASE e = TASKS_LOADED    -> "todoist:tasks-loaded"
    [] e = TASK_COMPLETED  -> "todoist:task-completed"
    [] e = TASK_ADDED      -> "todoist:task-added"
    [] e = TIMER_TICK      -> "pomodoro:timer-tick"
    [] e = TIMER_COMPLETED -> "pomodoro:timer-completed"
    [] e = WORK_STARTED    -> "pomodoro:work-started"
    [] e = BREAK_STARTED   -> "pomodoro:break-started"
    [] e = THEME_CHANGED   -> "settings:theme-changed"
    [] OTHER               -> Null

ForwardedEvents ==
  {TASKS_LOADED, TASK_COMPLETED, TASK_ADDED, TIMER_TICK, TIMER_COMPLETED,
   WORK_STARTED, BREAK_STARTED, THEME_CHANGED}

\* methodMap[eventName] || 'onEvent' in ThemeManager._forwardEventToTheme.
methodMap(eventName) ==
  CASE eventName = "todoist:tasks-loaded"     -> "onTasksLoaded"
    [] eventName = "todoist:current-task"     -> "onCurrentTask"
    [] eventName = "todoist:task-completed"   -> "onTaskCompleted"
    [] eventName = "todoist:task-added"       -> "onTaskAdded"
    [] eventName = "pomodoro:timer-tick"      -> "onPomodoroTick"
    [] eventName = "pomodoro:timer-completed" -> "onPomodoroCompleted"
    [] eventName = "pomodoro:work-started"    -> "onWorkStarted"
    [] eventName = "pomodoro:break-started"   -> "onBreakStarted"
    [] eventName = "settings:theme-changed"   -> "onThemeSettingsChanged"
    [] OTHER                                  -> "onEvent"

\* The listeners of each event name, in the order they subscribed: the
\* ThemeManager subscribes when its module is first required (main.js:13),
\* main.js subscribes afterwards (main.js:795-822).
Subscribers(e) ==
  CASE e \in {TIMER_TICK, TIMER_COMPLETED} -> <<"themeManager", "main">>
    [] e \in ForwardedEvents               -> <<"themeManager">>
    [] e = SETTINGS_CHANGED                -> <<"main">>
    [] OTHER                               -> <<>>

\* The task a tasks-loaded payload carries.  A payload whose currentTask is
\* null (falsy) is modelled as a payload without the field.
TheTask == [id |-> "t1", content |-> "Write report"]

Payloads(e) ==
  IF e = TASKS_LOADED
    THEN { [currentTaskIndex |-> 0],
           [currentTaskIndex |-> 0, currentTask |-> TheTask] }
    ELSE { [event |-> e] }

\* _forwardEventToTheme trying the catch-all before the mapped method.
ForwardEventToThemeCatchAllFirst(m, eventName, data) ==
  IF "onEvent" \in ModuleMethods(m)
    THEN <<Invocation(m, "onEvent", <<eventName, data>>)>>
    ELSE IF methodMap(eventName) \in ModuleMethods(m)
      THEN <<Invocation(m, methodMap(eventName), <<data>>)>>
      ELSE <<>>

\* ThemeManager._forwardEventToTheme on main module m: the call it makes, or
\* none when the module has neither the mapped method nor onEvent.
ForwardEventToTheme(m, eventName, data) ==
  LET methodName == methodMap(eventName)
  IN IF methodName \in ModuleMethods(m)
       THEN <<Invocation(m, methodName, <<data>>)>>
       ELSE IF "onEvent" \in ModuleMethods(m)
         THEN <<Invocation(m, "onEvent", <<eventName, data>>)>>
         ELSE <<>>

\* The forwards the ThemeManager's listener of bus event e makes for payload
\* data: one per event, and for tasks-loaded a second one carrying
\* data.currentTask when that is truthy.
Forwards(e, data) ==
  IF e = TASKS_LOADED
    THEN <<[eventName |-> ForwardedAs(e), data |-> data]>> \o
         (IF "currentTask" \in DOMAIN data
            THEN <<[eventName |-> "todoist:current-task",
                    data |-> data.currentTask]>>
            ELSE <<>>)
    ELSE <<[eventName |-> ForwardedAs(e), data |-> data]>>

\* One forward made (inv: the call, or none) ahead of the forwards `rest`:
\* when its handler throws, the rest is not made.
Forwarded(inv, rest, bad) ==
  IF inv # <<>> /\ inv[1].method = bad
    THEN [entries |-> inv, threw |-> TRUE]
    ELSE [entries |-> inv \o rest.entries, threw |-> rest.threw]

\* The ThemeManager's listener: the forwards in order against main module m,
\* stopping at the first handler that throws.  bad is the handler method that
\* throws in this dispatch (Null: none does).
RECURSIVE RunForwards(_, _, _)
RunForwards(fs, m, bad) ==
  IF fs = <<>>
    THEN [entries |-> <<>>, threw |-> FALSE]
    ELSE Forwarded(ForwardEventToTheme(m, Head(fs).eventName, Head(fs).data),
                   RunForwards(Tail(fs), m, bad), bad)

\* The ThemeManager's listener forwarding to the first registered theme
\* instead of the active one.
RunSubscriberFirstTheme(sub, e, data, active, bad) ==
  IF sub = "themeManager" /\ themes # <<>>
    THEN RunForwards(Forwards(e, data), themes[1].mainModule, bad)
    ELSE [entries |-> <<>>, threw |-> FALSE]

\* One listener of the bus run for event e.
RunSubscriber(sub, e, data, active, bad) ==
  IF sub = "themeManager" /\ active # Null
    THEN RunForwards(Forwards(e, data), ThemesGet(active).mainModule, bad)
    ELSE [entries |-> <<>>, threw |-> FALSE]

\* Listener sub run with result r ahead of the listeners `rest`: when it
\* throws, the rest does not run.
Listened(sub, r, rest) ==
  IF r.threw
    THEN [invoked |-> <<sub>>, entries |-> r.entries, threw |-> TRUE]
    ELSE [invoked |-> <<sub>> \o rest.invoked,
          entries |-> r.entries \o rest.entries,
          threw |-> rest.threw]

\* EventEmitter.emit as EventBus.publish calls it: the listeners run in order
\* on the publisher's stack; the first one that throws ends the loop and its
\* exception reaches the publisher.
RECURSIVE Emit(_, _, _, _, _)
Emit(subs, e, data, active, bad) ==
  IF subs = <<>>
    THEN [invoked |-> <<>>, entries |-> <<>>, threw |-> FALSE]
    ELSE Listened(Head(subs), RunSubscriber(Head(subs), e, data, active, bad),
                  Emit(Tail(subs), e, data, active, bad))

\* EventBus.publish(eventName, data) while `active` is the active theme.
PublishResult(e, data, active, bad) ==
  [event |-> e, data |-> data] @@ Emit(Subscribers(e), e, data, active, bad)

\* ThemeManager.sendToRenderer: the messages delivered, none unless the
\* window exists.
SendToRenderer(msg) == IF globalWindow THEN <<msg>> ELSE <<>>


\* ------------------------------------------------------- service construction

SecondsPerMinute == 60
DefaultWorkTime == 25
DefaultBreakTime == 5

\* The phase length in seconds the state object st gives its current mode.
PhaseSeconds(st) ==
  IF st.isBreak THEN st.breakTime * SecondsPerMinute
                ELSE st.workTime * SecondsPerMinute

\* A settings store without a 'pomodoro' and without a 'todoist' entry.
NoSettings == [pomodoro |-> EmptyMap, todoist |-> EmptyMap]

\* settingsService.getPomodoroSettings(): the entry, or the defaults.
GetPomodoroSettings(stored) ==
  IF DOMAIN stored.pomodoro = {}
    THEN [workTime |-> DefaultWorkTime, breakTime |-> DefaultBreakTime,
          workProjectId |-> Null, breakProjectId |-> Null,
          projectTaskMemory |-> EmptyMap]
    ELSE stored.pomodoro

\* settingsService.getTodoistSettings(): the entry, or the defaults.
GetTodoistSettings(stored) ==
  IF DOMAIN stored.todoist = {}
    THEN [apiKey |-> FALSE, selectedProjectId |-> Null, currentTaskIndex |-> 0]
    ELSE stored.todoist

\* PomodoroService.loadSettings() on state object st: the durations and the
\* project fields are read from the settings s, a missing or falsy one
\* giving its default, and timeRemaining is set to the current mode's length.
loadSettings(st, s) ==
  LET loaded ==
        [st EXCEPT
           !.workTime = IF "workTime" \in DOMAIN s /\ s.workTime # 0
                          THEN s.workTime ELSE DefaultWorkTime,
           !.breakTime = IF "breakTime" \in DOMAIN s /\ s.breakTime # 0
                           THEN s.breakTime ELSE DefaultBreakTime,
           !.workProjectId = IF "workProjectId" \in DOMAIN s
                               THEN s.workProjectId ELSE Null,
           !.breakProjectId = IF "breakProjectId" \in DOMAIN s
                                THEN s.breakProjectId ELSE Null,
           !.projectTaskMemory = IF "projectTaskMemory" \in DOMAIN s
                                   THEN s.projectTaskMemory ELSE EmptyMap]
  IN [loaded EXCEPT !.timeRemaining = PhaseSeconds(loaded)]

\* new PomodoroService(): the default state, then loadSettings().
PomodoroConstructed(stored) ==
  [state |-> loadSettings([isActive |-> FALSE, isBreak |-> FALSE,
                           timeRemaining |-> 0,
                           workTime |-> DefaultWorkTime,
                           breakTime |-> DefaultBreakTime,
                           workProjectId |-> Null, breakProjectId |-> Null,
                           projectTaskMemory |-> EmptyMap],
                          GetPomodoroSettings(stored)),
   timerInterval |-> FALSE]

\* new TodoistService(): empty lists, then _loadSettings().  apiKey is kept
\* as whether the key is non-empty.
TodoistConstructed(stored) ==
  LET s == GetTodoistSettings(stored)
  IN [tasks |-> <<>>, projects |-> <<>>,
      currentTaskIndex |-> s.currentTaskIndex, apiKey |-> s.apiKey,
      selectedProjectId |-> IF "selectedProjectId" \in DOMAIN s
                              THEN s.selectedProjectId ELSE Null]

\* Nothing has happened to the timer yet.
Unwatched == [stopped |-> FALSE, ticks |-> -1]

\* new DefaultTheme(): autoStartNextPhase is off; timeouts counts the
\* setTimeout callbacks of the instance that have not run yet.
NoTask == [id |-> Null, content |-> Null]
DefaultThemeConstructed ==
  [autoStartNextPhase |-> FALSE, timeouts |-> 0, currentTask |-> NoTask]

\* gameLoopId when it names no frame request (null; request ids are positive).
NoFrame == 0

\* new GameThemeTemplate(themeManager): no frame loop, gameLoopId unset, no
\* style element of the theme in the document, no lifecycle call made yet.
GameThemeConstructed ==
  [loops |-> {}, gameLoopId |-> NoFrame, styles |-> 0, lifecycle |-> "constructed"]

\* The renderer-side ThemeManager as constructed: an empty themes map and no
\* active theme; calls are its activateTheme calls suspended at an await.
RendererThemesConstructed == [themes |-> {}, activeTheme |-> Null, calls |-> <<>>]

\* The themes whose renderer modules the surface is told to load.
SurfaceThemes == {"default", "farming"}

\* What ThemeAPI.themeSettings holds: an object, null (Null) or undefined.
SettingsObject == "object"
Undefined == "undefined"

\* new ThemeAPI() in the display surface, as the bridge module imports it
\* while the document loads: no current theme, themeSettings an (empty)
\* object, no renderer registered (listening: the registered renderer has
\* listeners of its own attached), no #theme-container element in the
\* document yet (themeContainer; the bridge creates it when DOMContentLoaded
\* fires, ready) and so no content of it (container), per theme no renderer
\* instance with listeners on the window (attached), no import pending, no
\* 'get-next-task' message of a renderer's initialize on its way to the main
\* process, and no initialize() of its own under way.
ThemeAPIConstructed ==
  [currentTheme |-> Null, themeSettings |-> SettingsObject,
   themeRenderer |-> Null, listening |-> FALSE, ready |-> FALSE,
   themeContainer |-> FALSE, container |-> Null,
   attached |-> [t \in SurfaceThemes |-> 0],
   loads |-> <<>>, initialRequests |-> 0,
   initialize |-> Null]

\* The names published on the run-time bus.
BusNames == {"a", "b"}

\* new EventBus(): no listener of any name; once tells, entry by entry, which
\* listeners are once-wrappers; fresh keeps, per name, the handlers
\* subscribed while the latest publish of the name was in flight.
EventBusConstructed ==
  [listeners |-> [n \in BusNames |-> <<>>], once |-> [n \in BusNames |-> <<>>],
   fresh |-> [n \in BusNames |-> {}]]

\* The services and theme modules as constructed over the settings store
\* `stored`.
ServicesConstructed(stored) ==
  /\ serviceStore = stored
  /\ pomodoro = PomodoroConstructed(stored)
  /\ todoist = TodoistConstructed(stored)
  /\ watch = Unwatched
  /\ requests = <<>>
  /\ defaultTheme = DefaultThemeConstructed
  /\ gameTheme = GameThemeConstructed
  /\ rendererThemes = RendererThemesConstructed
  /\ surface = ThemeAPIConstructed
  /\ bus = EventBusConstructed

\* ------------------------------------------------------------------- state

NoOp == [op |-> Null]

\* The state once the ThemeManager singleton is constructed: nothing
\* registered, nothing active, nothing stored for themes.
ThemeManagerConstructed ==
  /\ themes = <<>>
  /\ activeTheme = Null
  /\ store = [currentTheme |-> Null, themeSettings |-> EmptyMap]
  /\ globalWindow \in BOOLEAN
  /\ status = [m \in ModuleIds |-> "idle"]
  /\ calls = <<>>
  /\ last = NoOp

\* The application started over an empty settings store.
Init ==
  /\ ThemeManagerConstructed
  /\ ServicesConstructed(NoSettings)

\* ------------------------------------------------- DefaultTheme's own state

\* TodoistService.getCurrentTask() for a non-empty list: the entry at the
\* cursor, with undefined fields when the cursor is outside the list.
getCurrentTask(m) ==
  IF m.currentTaskIndex + 1 \in DOMAIN m.tasks
    THEN [id |-> m.tasks[m.currentTaskIndex + 1],
          content |-> m.tasks[m.currentTaskIndex + 1]]
    ELSE [id |-> "undefined", content |-> "undefined"]

\* DefaultTheme.activate(): the task getCurrentTask() returns is recorded
\* when there is one (the list of service svc is not empty).
activate(dt, svc) ==
  IF svc.tasks # <<>> THEN [dt EXCEPT !.currentTask = getCurrentTask(svc)] ELSE dt

\* DefaultTheme.updateSettings(settings): the settings are merged into the
\* instance's, of which autoStartNextPhase is followed.
updateSettings(dt, settings) ==
  IF "autoStartNextPhase" \in DOMAIN settings
    THEN [dt EXCEPT !.autoStartNextPhase = settings.autoStartNextPhase]
    ELSE dt

\* DefaultTheme.onThemeSettingsChanged(data): updateSettings with
\* data.themeSettings[this.name], when the payload has it.
onThemeSettingsChanged(dt, data) ==
  IF "themeSettings" \in DOMAIN data /\ "default" \in DOMAIN data.themeSettings
    THEN updateSettings(dt, data.themeSettings["default"])
    ELSE dt

\* DefaultTheme.onTasksLoaded(data): the current task of the payload is
\* recorded when the payload has one.
onTasksLoaded(dt, data) ==
  IF "currentTask" \in DOMAIN data
    THEN [dt EXCEPT !.currentTask = data.currentTask]
    ELSE dt

\* DefaultTheme.onCurrentTask(task): the task is recorded (and then sent to
\* the renderer).
onCurrentTask(dt, task) == [dt EXCEPT !.currentTask = task]

\* The most timeouts of the DefaultTheme pending at once.
MaxTimeouts == 2

\* DefaultTheme.onPomodoroCompleted(data) once it has sent the completion to
\* the renderer: with autoStartNextPhase it sets a timeout of one second
\* that calls pomodoro.startNextPhase().
onPomodoroCompleted(dt) ==
  IF dt.autoStartNextPhase THEN [dt EXCEPT !.timeouts = @ + 1] ELSE dt

\* The DefaultTheme instance dt after the call inv into a theme module.
ThemeInvoked(dt, inv) ==
  IF inv.mod = "mDefault" /\ inv.method = "activate"
    THEN activate(dt, todoist)
    ELSE dt

\* The DefaultTheme instance dt after the handlers listed in entries have
\* run in order.  When threw, the last of them threw: a handler that
\* records what it is given does so in its first statement, so it has
\* recorded it; onPomodoroCompleted threw in sendToRenderer, before its
\* timeout was set.
RECURSIVE ThemeHandlersRan(_, _, _)
ThemeHandlersRan(dt, entries, threw) ==
  IF entries = <<>>
    THEN dt
    ELSE LET e == Head(entries)
             returned == ~(threw /\ Len(entries) = 1)
             ran ==
               CASE e.mod # "mDefault" -> dt
                 [] e.method = "onTasksLoaded" -> onTasksLoaded(dt, e.args[1])
                 [] e.method = "onCurrentTask" -> onCurrentTask(dt, e.args[1])
                 [] e.method = "onThemeSettingsChanged" ->
                      onThemeSettingsChanged(dt, e.args[1])
                 [] e.method = "onPomodoroCompleted" /\ returned ->
                      onPomodoroCompleted(dt)
                 [] OTHER -> dt
         IN ThemeHandlersRan(ran, Tail(entries), threw)

\* The DefaultTheme instance left as the handlers that the publishes of a
\* step reached leave it.
ThemeRan(entries, threw) ==
  /\ defaultTheme' = ThemeHandlersRan(defaultTheme, entries, threw)
  /\ defaultTheme'.timeouts <= MaxTimeouts

\* No activateTheme / deactivateTheme call is suspended at an await.
Quiescent == calls = <<>>

\* A suspended call of kind k for theme n at position pc, issued while
\* `before` was the active theme and `saved` the stored theme name; trace is
\* the calls it has made into themes.
Call(k, n, pc, trace) ==
  [kind |-> k, name |-> n, pc |-> pc, before |-> activeTheme,
   saved |-> store.currentTheme, trace |-> trace]

\* What `last` keeps of a lifecycle call that returned.
CallReturned(c, trace, msgs, result) ==
  [op |-> IF c.kind = "activate" THEN "activateTheme" ELSE "deactivateTheme",
   name |-> c.name, before |-> c.before, saved |-> c.saved, trace |-> trace,
   sent |-> msgs, result |-> result]

\* The calls still suspended once call i has returned.
Remove(cs, i) == SubSeq(cs, 1, i - 1) \o SubSeq(cs, i + 1, Len(cs))

\* A theme's own lifecycle: activate() was called on it and is pending
\* ("activating"), resolved ("active") or threw ("failed"); deactivate() has
\* been called on it since, or it was never activated ("idle").
Invoked(st, inv) ==
  CASE inv.method = "activate"   -> [st EXCEPT ![inv.mod] = "activating"]
    [] inv.method = "deactivate" -> [st EXCEPT ![inv.mod] = "idle"]
    [] OTHER                     -> st

ActivateReturned(st, m, outcome) ==
  IF st[m] = "activating"
    THEN [st EXCEPT ![m] = IF outcome = "ok" THEN "active" ELSE "failed"]
    ELSE st

\* ------------------------------------------------------------- registerTheme

\* registerTheme without the check for an already registered name: the map
\* entry of that name is replaced.
RegisterThemeOverwrite(config, initOutcome) ==
  LET rejected == ~ValidateThemeConfig(config)
      ok == ~rejected /\ initOutcome = "ok"
      replaced == [i \in 1..Len(themes) |->
                     IF themes[i].name = config.name THEN ThemeData(config)
                     ELSE themes[i]]
  IN /\ themes' = IF ~ok THEN themes
                  ELSE IF ThemesHas(config.name) THEN replaced
                  ELSE Append(themes, ThemeData(config))
     /\ last' = [op |-> "registerTheme", config |-> config,
                 entries |-> IF rejected THEN <<>>
                             ELSE <<Invocation(config.mainModule, "initialize", <<>>)>>,
                 before |-> activeTheme, registry |-> themes,
                 threw |-> ~rejected /\ initOutcome = "throw",
                 result |-> ok]
     /\ UNCHANGED <<activeTheme, store, globalWindow, serviceVars, status, calls>>

\* ThemeManager.registerTheme(themeConfig); initOutcome is what the module's
\* initialize does when it is called.
RegisterTheme(config, initOutcome) ==
  LET rejected == ~ValidateThemeConfig(config) \/ ThemesHas(config.name)
      ok == ~rejected /\ initOutcome = "ok"
  IN /\ themes' = IF ok THEN Append(themes, ThemeData(config)) ELSE themes
     /\ last' = [op |-> "registerTheme", config |-> config,
                 entries |-> IF rejected THEN <<>>
                             ELSE <<Invocation(config.mainModule, "initialize", <<>>)>>,
                 before |-> activeTheme, registry |-> themes,
                 threw |-> ~rejected /\ initOutcome = "throw",
                 result |-> ok]
     /\ UNCHANGED <<activeTheme, store, globalWindow, serviceVars, status, calls>>

\* ------------------------------------------------- activateTheme / deactivateTheme

\* activateTheme without the deactivation of the current theme: the target's
\* activate is called at once, whatever is active.
ActivateThemeNoDeactivate(themeName) ==
  IF ~ThemesHas(themeName)
    THEN /\ last' = CallReturned(Call("activate", themeName, "done", <<>>),
                                 <<>>, <<>>, FALSE)
         /\ UNCHANGED <<themes, activeTheme, store, globalWindow, serviceVars, status, calls>>
    ELSE /\ Len(calls) < MaxInFlight
         /\ LET inv == Invocation(ThemesGet(themeName).mainModule, "activate", <<>>)
            IN /\ calls' = Append(calls, Call("activate", themeName, "actAwait", <<inv>>))
               /\ status' = Invoked(status, inv)
               /\ defaultTheme' = ThemeInvoked(defaultTheme, inv)
         /\ last' = NoOp
         /\ UNCHANGED <<themes, activeTheme, store, globalWindow, coreVars, rendererVars>>

\* activateTheme saving the requested name before it looks the theme up.
ActivateThemeSavesFirst(themeName) ==
  IF ~ThemesHas(themeName)
    THEN /\ last' = CallReturned(Call("activate", themeName, "done", <<>>),
                                 <<>>, <<>>, FALSE)
         /\ store' = StoreSetCurrentTheme(store, themeName)
         /\ UNCHANGED <<themes, activeTheme, globalWindow, serviceVars, status, calls>>
    ELSE /\ Len(calls) < MaxInFlight
         /\ LET inv == IF activeTheme # Null
                         THEN Invocation(ActiveModule, "deactivate", <<>>)
                         ELSE Invocation(ThemesGet(themeName).mainModule,
                                         "activate", <<>>)
                pc == IF activeTheme # Null THEN "deactAwait" ELSE "actAwait"
            IN /\ calls' = Append(calls, Call("activate", themeName, pc, <<inv>>))
               /\ status' = Invoked(status, inv)
               /\ defaultTheme' = ThemeInvoked(defaultTheme, inv)
         /\ last' = NoOp
         /\ UNCHANGED <<themes, activeTheme, store, globalWindow, coreVars, rendererVars>>

\* ThemeManager.activateTheme(themeName) up to its first await: the lookup,
\* then either the call of the active theme's deactivate (inside
\* deactivateTheme) or, with nothing active, the call of the target's activate.
ActivateTheme(themeName) ==
  IF ~ThemesHas(themeName)
    THEN /\ last' = CallReturned(Call("activate", themeName, "done", <<>>),
                                 <<>>, <<>>, FALSE)
         /\ UNCHANGED <<themes, activeTheme, store, globalWindow, serviceVars, status, calls>>
    ELSE /\ Len(calls) < MaxInFlight
         /\ LET inv == IF activeTheme # Null
                         THEN Invocation(ActiveModule, "deactivate", <<>>)
                         ELSE Invocation(ThemesGet(themeName).mainModule,
                                         "activate", <<>>)
                pc == IF activeTheme # Null THEN "deactAwait" ELSE "actAwait"
            IN /\ calls' = Append(calls, Call("activate", themeName, pc, <<inv>>))
               /\ status' = Invoked(status, inv)
               /\ defaultTheme' = ThemeInvoked(defaultTheme, inv)
         /\ last' = NoOp
         /\ UNCHANGED <<themes, activeTheme, store, globalWindow, coreVars, rendererVars>>

\* ThemeManager.deactivateTheme() called on its own, up to its await.
DeactivateTheme ==
  IF activeTheme = Null
    THEN /\ last' = CallReturned(Call("deactivate", Null, "done", <<>>),
                                 <<>>, <<>>, TRUE)
         /\ UNCHANGED <<themes, activeTheme, store, globalWindow, serviceVars, status, calls>>
    ELSE /\ Len(calls) < MaxInFlight
         /\ LET inv == Invocation(ActiveModule, "deactivate", <<>>)
            IN /\ calls' = Append(calls, Call("deactivate", Null, "deactAwait", <<inv>>))
               /\ status' = Invoked(status, inv)
               /\ defaultTheme' = ThemeInvoked(defaultTheme, inv)
         /\ last' = NoOp
         /\ UNCHANGED <<themes, activeTheme, store, globalWindow, coreVars, rendererVars>>

\* deactivateTheme after `await this.activeTheme.mainModule.deactivate()`
\* settles with outcome.  On "ok" it reads this.activeTheme.name (a TypeError,
\* caught, when the pointer is null by now) and clears the pointer; on
\* "throw" the catch block returns false and the pointer stays.  Called on
\* its own it returns here; inside activateTheme, that call resumes next.
DeactivateSettled(i, outcome) ==
  /\ i \in 1..Len(calls)
  /\ calls[i].pc = "deactAwait"
  /\ LET cleared == outcome = "ok" /\ activeTheme # Null
     IN /\ activeTheme' = IF cleared THEN Null ELSE activeTheme
        /\ IF calls[i].kind = "deactivate"
             THEN /\ calls' = Remove(calls, i)
                  /\ last' = CallReturned(calls[i], calls[i].trace, <<>>, cleared)
             ELSE /\ calls' = [calls EXCEPT ![i].pc = "deactReturned"]
                  /\ last' = NoOp
  /\ UNCHANGED <<themes, store, globalWindow, serviceVars, status>>

\* activateTheme after `await this.deactivateTheme()`: whatever that
\* returned, the target's activate is called.
ActivateInvoke(i) ==
  /\ i \in 1..Len(calls)
  /\ calls[i].pc = "deactReturned"
  /\ LET inv == Invocation(ThemesGet(calls[i].name).mainModule, "activate", <<>>)
     IN /\ calls' = [calls EXCEPT ![i].pc = "actAwait",
                                  ![i].trace = Append(@, inv)]
        /\ status' = Invoked(status, inv)
        /\ defaultTheme' = ThemeInvoked(defaultTheme, inv)
  /\ last' = NoOp
  /\ UNCHANGED <<themes, activeTheme, store, globalWindow, coreVars, rendererVars>>

\* Two publishes in a row, as the settings service makes them: the second is
\* not reached when the first throws.
PublishBoth(first, second) ==
  IF first.threw
    THEN [entries |-> first.entries, threw |-> TRUE]
    ELSE [entries |-> first.entries \o second.entries, threw |-> second.threw]

\* SettingsService.saveCurrentTheme(n) once the store is written:
\* theme-changed and settings-changed are published; the first publish
\* reaches the theme that is active with the ThemeManager by then, whose
\* handler may throw.
SaveCurrentThemePublish(n, active, bad) ==
  PublishBoth(PublishResult(THEME_CHANGED, [currentTheme |-> n], active, bad),
              PublishResult(SETTINGS_CHANGED,
                            [area |-> "theme", key |-> "currentTheme"],
                            active, bad))

\* The 'theme:changed' notice of ThemeManager._notifyRendererThemeChanged.
ThemeChangedNotice(st, n) ==
  [channel |-> "theme:changed", name |-> n,
   settings |-> GetThemeSettingsIn(st, n, n)]

\* activateTheme after `await themeData.mainModule.activate()` settles.  On
\* "ok": the pointer is set, the name is saved (which publishes), the renderer
\* is notified, true is returned; an exception anywhere in the try block
\* returns false from the point it was thrown.
ActivateSettled(i, outcome, bad) ==
  /\ i \in 1..Len(calls)
  /\ calls[i].pc = "actAwait"
  /\ LET n == calls[i].name
         st == StoreSetCurrentTheme(store, n)
         saved == SaveCurrentThemePublish(n, n, bad)
     IN /\ status' = ActivateReturned(status, ThemesGet(n).mainModule, outcome)
        /\ calls' = Remove(calls, i)
        /\ IF outcome = "throw"
             THEN /\ last' = CallReturned(calls[i], calls[i].trace, <<>>, FALSE)
                  /\ UNCHANGED <<activeTheme, store, defaultTheme>>
             ELSE /\ activeTheme' = n
                  /\ store' = st
                  /\ ThemeRan(saved.entries, saved.threw)
                  /\ last' = CallReturned(calls[i], calls[i].trace \o saved.entries,
                                IF saved.threw THEN <<>>
                                ELSE SendToRenderer(ThemeChangedNotice(st, n)),
                                ~saved.threw)
  /\ UNCHANGED <<themes, globalWindow, coreVars, rendererVars>>

\* ------------------------------------------------ discoverThemes / loadSavedTheme

\* The files the themes directory may hold.  A file is its name, what
\* require() of it gives (a config object, a class, or an exception thrown
\* while it loads or while the class is constructed), the config it exports
\* or the module its class constructs, and what the module's initialize does.
ThemeFile(file, exports, config, mod, init) ==
  [file |-> file, exports |-> exports, config |-> config, mod |-> mod,
   init |-> init]

NoConfig == Config("", "", NoModule, EmptyMap)

DefaultFile ==
  ThemeFile("default-theme.js", "config",
            Config("default", "Minimal", "mDefault", [x |-> 1]), NoModule, "ok")
FarmingFile ==
  ThemeFile("farming-theme.js", "class", NoConfig, "mFarming", "ok")
RetroFile ==
  ThemeFile("retro-theme.js", "config",
            Config("retro", "Retro", "mOther", EmptyMap), NoModule, "ok")
BaseFile ==
  ThemeFile("base-theme.js", "class", NoConfig, "mFarming", "ok")
TemplateFile ==
  ThemeFile("game-theme-template.js", "class", NoConfig, "mFarming", "ok")

\* The ways one theme file is broken: it throws while loading, its class
\* builds a module without deactivate, its config has no displayName, or
\* its module's initialize throws.
BrokenFiles ==
  { ThemeFile("retro-theme.js", "throws", NoConfig, NoModule, "ok"),
    ThemeFile("retro-theme.js", "class", NoConfig, "mBroken", "ok"),
    ThemeFile("retro-theme.js", "config",
              Config("retro", "", "mOther", EmptyMap), NoModule, "ok"),
    ThemeFile("retro-theme.js", "config",
              Config("retro", "Retro", "mOther", EmptyMap), NoModule, "throw") }

\* file.endsWith('-theme.js') && file !== 'base-theme.js'
IsThemeFile(file) ==
  file \in {"default-theme.js", "farming-theme.js", "retro-theme.js"}

\* path.basename(file, '.js').replace('-theme', '')
ThemeNameOf(file) ==
  CASE file = "default-theme.js" -> "default"
    [] file = "farming-theme.js" -> "farming"
    [] file = "retro-theme.js"   -> "retro"
    [] file = "base-theme.js"    -> "base"
    [] OTHER                     -> "game-template"

\* themeName.charAt(0).toUpperCase() + themeName.slice(1)
Capitalized(themeName) ==
  CASE themeName = "default" -> "Default"
    [] themeName = "farming" -> "Farming"
    [] themeName = "retro"   -> "Retro"
    [] themeName = "base"    -> "Base"
    [] OTHER                 -> "Game-template"

\* The config discoverThemes hands to registerTheme for a file that loaded:
\* built from the file name when the module exports a class, the exported
\* object otherwise.
ConfigOf(f) ==
  IF f.exports = "class"
    THEN Config(ThemeNameOf(f.file), Capitalized(ThemeNameOf(f.file)),
                f.mod, EmptyMap)
    ELSE f.config

\* this.themes.has(name) on registry reg.
HasIn(reg, n) == \E i \in 1..Len(reg) : reg[i].name = n

\* ThemeManager.registerTheme(config) on registry reg: the entry is added
\* when the config is valid, the name is new and initialize returns.
RegisteredIn(reg, config, initOutcome) ==
  IF ValidateThemeConfig(config) /\ ~HasIn(reg, config.name) /\ initOutcome = "ok"
    THEN Append(reg, ThemeData(config))
    ELSE reg

\* The loop of discoverThemes without the try block around each file: a
\* file that throws while loading ends the loop.
RECURSIVE LoadEachUnguarded(_, _)
LoadEachUnguarded(reg, files) ==
  IF files = <<>>
    THEN reg
    ELSE IF ~IsThemeFile(Head(files).file)
      THEN LoadEachUnguarded(reg, Tail(files))
      ELSE IF Head(files).exports = "throws"
        THEN reg
        ELSE LoadEachUnguarded(
               RegisteredIn(reg, ConfigOf(Head(files)), Head(files).init),
               Tail(files))

\* The loop of discoverThemes over the directory listing: files that are
\* not theme files are filtered out, a file that throws while loading is
\* logged and skipped, every other one is handed to registerTheme.
RECURSIVE LoadEach(_, _)
LoadEach(reg, files) ==
  IF files = <<>>
    THEN reg
    ELSE IF ~IsThemeFile(Head(files).file) \/ Head(files).exports = "throws"
      THEN LoadEach(reg, Tail(files))
      ELSE LoadEach(RegisteredIn(reg, ConfigOf(Head(files)), Head(files).init),
                    Tail(files))

\* A themes directory: missing, unreadable (readdirSync throws), or a
\* listing of files.
MissingDir == [state |-> "missing", files |-> <<>>]
UnreadableDir == [state |-> "unreadable", files |-> <<>>]
Listing(files) == [state |-> "listed", files |-> files]

\* ThemeManager.discoverThemes() over directory dir.  It has no await: the
\* whole of it runs in the caller's turn.  Every exception is caught inside
\* it, by the try block of the loop or by the outer one.
DiscoverThemes(dir) ==
  /\ themes' = IF dir.state = "listed" THEN LoadEach(themes, dir.files) ELSE themes
  /\ last' = [op |-> "discoverThemes", dir |-> dir, registry |-> themes,
              before |-> activeTheme, threw |-> FALSE]
  /\ UNCHANGED <<activeTheme, store, globalWindow, serviceVars, status, calls>>

\* The theme loadSavedTheme activates, the stored name never falling back
\* to 'default'.
SavedThemeTargetNoDefault ==
  IF ThemesHas(StoredCurrentTheme) THEN StoredCurrentTheme
  ELSE IF themes # <<>> THEN themes[1].name
  ELSE Null

\* The theme loadSavedTheme activates: the stored one when it is
\* registered, else 'default' when that is, else the first key of the map;
\* Null when the map is empty.
SavedThemeTarget ==
  IF ThemesHas(StoredCurrentTheme) THEN StoredCurrentTheme
  ELSE IF ThemesHas("default") THEN "default"
  ELSE IF themes # <<>> THEN themes[1].name
  ELSE Null

\* ThemeManager.loadSavedTheme() up to the first await of the activateTheme
\* call it makes; with nothing registered it returns false at once.  What
\* the activateTheme call returns later is what loadSavedTheme returns.
LoadSavedTheme ==
  IF SavedThemeTarget = Null
    THEN /\ last' = [op |-> "loadSavedTheme", stored |-> store.currentTheme,
                     returned |-> TRUE, result |-> FALSE, threw |-> FALSE]
         /\ UNCHANGED <<themes, activeTheme, store, globalWindow, serviceVars,
                        status, calls>>
    ELSE /\ Len(calls) < MaxInFlight
         /\ LET inv == IF activeTheme # Null
                         THEN Invocation(ActiveModule, "deactivate", <<>>)
                         ELSE Invocation(ThemesGet(SavedThemeTarget).mainModule,
                                         "activate", <<>>)
                pc == IF activeTheme # Null THEN "deactAwait" ELSE "actAwait"
            IN /\ calls' = Append(calls, Call("activate", SavedThemeTarget, pc, <<inv>>))
               /\ status' = Invoked(status, inv)
               /\ defaultTheme' = ThemeInvoked(defaultTheme, inv)
         /\ last' = [op |-> "loadSavedTheme", stored |-> store.currentTheme,
                     returned |-> FALSE, result |-> FALSE, threw |-> FALSE]
         /\ UNCHANGED <<themes, activeTheme, store, globalWindow, coreVars, rendererVars>>

\* -------------------------------------------------------------------- events

\* The events services publish on their own.
PublishedEvents == ForwardedEvents \cup {SETTINGS_CHANGED, API_ERROR}

\* The handlers a publish of e reaches when none throws: the ones that may.
Reached(e, data, active) ==
  LET r == PublishResult(e, data, active, Null)
  IN {r.entries[k].method : k \in 1..Len(r.entries)}

\* A service publishes event e with payload data; bad is the theme handler
\* that throws during this publish (Null: none).
Publish(e, data, bad) ==
  /\ LET r == PublishResult(e, data, activeTheme, bad)
     IN /\ last' = [op |-> "publish", event |-> e, data |-> data,
                    before |-> activeTheme, invoked |-> r.invoked,
                    entries |-> r.entries, threw |-> r.threw]
        /\ ThemeRan(r.entries, r.threw)
  /\ UNCHANGED <<themes, activeTheme, store, globalWindow, coreVars, rendererVars,
                 status, calls>>

\* ------------------------------------------------------------ theme settings

\* SettingsService.saveThemeSpecificSettings as updateThemeSettings calls it:
\* the store entry is replaced, then theme-changed and settings-changed are
\* published.
SaveThemeSpecificPublish(n, settings, bad) ==
  PublishBoth(PublishResult(THEME_CHANGED,
                            [currentTheme |-> StoredCurrentTheme,
                             themeSettings |-> [k \in {n} |-> settings]],
                            activeTheme, bad),
              PublishResult(SETTINGS_CHANGED,
                            [area |-> "theme", key |-> "themeSettings",
                             themeName |-> n], activeTheme, bad))

\* The 'theme:settings-updated' message of updateThemeSettings.
SettingsUpdatedNotice(st, n) ==
  [channel |-> "theme:settings-updated", name |-> n,
   settings |-> GetThemeSettingsIn(st, activeTheme, n)]

\* ThemeManager.updateThemeSettings(themeName, settings).  A Null themeName
\* is the omitted argument.  hook is what the module's updateSettings does,
\* bad the theme handler that throws while theme-changed is dispatched.  The
\* DefaultTheme merges the settings its onThemeSettingsChanged and its
\* updateSettings are handed.
UpdateThemeSettings(themeName, settings, hook, bad) ==
  \E name \in {IF themeName # Null THEN themeName ELSE activeTheme} :
  \E saved \in {SaveThemeSpecificPublish(name, settings, bad)} :
  LET found == name # Null /\ ThemesHas(name)
      m == ThemesGet(name).mainModule
      st == StoreSetThemeSettings(store, name, settings)
      hooked == "updateSettings" \in ModuleMethods(m)
      call == IF hooked /\ ~saved.threw
                THEN <<Invocation(m, "updateSettings", <<settings>>)>>
                ELSE <<>>
      ok == ~saved.threw /\ (hooked => hook = "ok")
      ran == ThemeHandlersRan(defaultTheme, saved.entries, saved.threw)
  IN /\ store' = IF found THEN st ELSE store
     /\ defaultTheme' =
          IF ~found THEN defaultTheme
          ELSE IF call # <<>> /\ m = "mDefault" /\ hook = "ok"
            THEN updateSettings(ran, settings)
            ELSE ran
     /\ last' =
          IF ~found
            THEN [op |-> "updateThemeSettings", name |-> name,
                  settings |-> settings, previous |-> EmptyMap,
                  entries |-> <<>>, sent |-> <<>>, result |-> FALSE]
            ELSE [op |-> "updateThemeSettings", name |-> name,
                  settings |-> settings,
                  previous |-> SavedSettings(store, name),
                  entries |-> saved.entries \o call,
                  sent |-> IF ok /\ activeTheme = name
                             THEN SendToRenderer(SettingsUpdatedNotice(st, name))
                             ELSE <<>>,
                  result |-> ok]
     /\ UNCHANGED <<themes, activeTheme, globalWindow, coreVars, rendererVars,
                    status, calls>>

\* The records saveThemeSettings is handed: a stored name together with
\* settings of the theme 'default'.
ThemeRecords ==
  {[currentTheme |-> "farming",
    themeSettings |-> [k \in {"default"} |-> [x |-> 2]]]}

\* The two publishes of SettingsService.saveThemeSettings(settings):
\* theme-changed with the record as its payload, then settings-changed.
SaveThemeSettingsPublish(settings, bad) ==
  PublishBoth(PublishResult(THEME_CHANGED, settings, activeTheme, bad),
              PublishResult(SETTINGS_CHANGED, [area |-> "theme"],
                            activeTheme, bad))

\* SettingsService.saveThemeSettings(settings): the stored 'theme' record is
\* replaced by settings (the stored name and every theme's settings), then
\* the two events are published; nothing is activated.
SaveThemeSettings(settings, bad) ==
  \E saved \in {SaveThemeSettingsPublish(settings, bad)} :
    /\ store' = settings
    /\ ThemeRan(saved.entries, saved.threw)
    /\ last' = [op |-> "saveThemeSettings", settings |-> settings,
                before |-> activeTheme, entries |-> saved.entries,
                threw |-> saved.threw]
    /\ UNCHANGED <<themes, activeTheme, globalWindow, coreVars, rendererVars,
                   status, calls>>

\* ---------------------------------------------------------- PomodoroService

TIMER_STARTED == "pomodoro:timer:started"
TIMER_PAUSED == "pomodoro:timer:paused"
TIMER_RESET == "pomodoro:timer:reset"
POMODORO_SETTINGS_CHANGED == "pomodoro:settings:changed"

MinMinutes == 1
MaxMinutes == 60

\* A call into the PomodoroService under way: the service's state object and
\* timerInterval, the stored 'pomodoro' entry, the events published so far,
\* the theme handlers they reached and whether a subscriber's exception is
\* travelling up the stack.
Running(svc, stored) ==
  [state |-> svc.state, timerInterval |-> svc.timerInterval, saved |-> stored,
   events |-> <<>>, entries |-> <<>>, threw |-> FALSE]

\* The call m once the publish with result r has returned to it.
Published(m, r) ==
  [m EXCEPT !.events = Append(@, [event |-> r.event, data |-> r.data]),
            !.entries = @ \o r.entries,
            !.threw = r.threw]

\* eventBus.publish(e, data) at this point of the call; bad is the theme
\* handler that throws when reached.  Nothing runs once an exception is
\* travelling.
Emitting(m, e, data, bad) ==
  IF m.threw
    THEN m
    ELSE Published(m, PublishResult(e, data, activeTheme, bad))

\* PomodoroService.start()
start(m, bad) ==
  IF m.threw \/ m.state.isActive
    THEN m
    ELSE LET m1 == [m EXCEPT !.state.isActive = TRUE, !.timerInterval = TRUE]
         IN Emitting(m1, TIMER_STARTED, m1.state, bad)

\* PomodoroService.pause()
pause(m, bad) ==
  IF m.threw \/ ~m.state.isActive
    THEN m
    ELSE LET m1 == [m EXCEPT !.state.isActive = FALSE, !.timerInterval = FALSE]
         IN Emitting(m1, TIMER_PAUSED, m1.state, bad)

\* reset() that leaves the mode as it is.
resetKeepsPhase(m, bad) ==
  LET m1 == [m EXCEPT !.timerInterval = FALSE,
                      !.state.isActive = FALSE,
                      !.state.timeRemaining = m.state.workTime * SecondsPerMinute]
  IN Emitting(m1, TIMER_RESET, m1.state, bad)

\* PomodoroService.reset()
reset(m, bad) ==
  LET m1 == [m EXCEPT !.timerInterval = FALSE,
                      !.state.isActive = FALSE,
                      !.state.isBreak = FALSE,
                      !.state.timeRemaining = m.state.workTime * SecondsPerMinute]
  IN Emitting(m1, TIMER_RESET, m1.state, bad)

\* PomodoroService.toggle()
toggle(m, bad) == IF m.state.isActive THEN pause(m, bad) ELSE start(m, bad)

\* SettingsService.savePomodoroSettings(settings): the store entry is set
\* and settings-changed is published.
savePomodoroSettings(m, settings, bad) ==
  Emitting([m EXCEPT !.saved = settings], SETTINGS_CHANGED, [area |-> "pomodoro"], bad)

\* PomodoroService.saveSettings(): the durations and the project fields of
\* the state are handed to savePomodoroSettings.
saveSettings(m, bad) ==
  savePomodoroSettings(m, [workTime |-> m.state.workTime,
                           breakTime |-> m.state.breakTime,
                           workProjectId |-> m.state.workProjectId,
                           breakProjectId |-> m.state.breakProjectId,
                           projectTaskMemory |-> m.state.projectTaskMemory],
                       bad)

\* PomodoroService.setProjectRelationship(workProjectId, breakProjectId)
setProjectRelationship(m, workProjectId, breakProjectId, bad) ==
  LET m1 == saveSettings([m EXCEPT !.state.workProjectId = workProjectId,
                                   !.state.breakProjectId = breakProjectId], bad)
  IN Emitting(m1, POMODORO_SETTINGS_CHANGED, m1.state, bad)

\* PomodoroService.setWorkProjectId(projectId)
setWorkProjectId(m, projectId, bad) ==
  setProjectRelationship(m, projectId, m.state.breakProjectId, bad)

\* PomodoroService.setBreakProjectId(projectId)
setBreakProjectId(m, projectId, bad) ==
  setProjectRelationship(m, m.state.workProjectId, projectId, bad)

\* The taskIndex argument when it is left out (undefined).
Omitted == -1

\* PomodoroService.rememberTaskForProject(projectId, taskIndex)
rememberTaskForProject(m, projectId, taskIndex, bad) ==
  IF projectId # Null /\ taskIndex # Omitted
    THEN saveSettings(
           [m EXCEPT !.state.projectTaskMemory =
                       Spread(@, [k \in {projectId} |-> taskIndex])], bad)
    ELSE m

\* setWorkTime(minutes) that only rejects durations below the minimum.
setWorkTimeNoUpperBound(m, minutes, bad) ==
  IF minutes < MinMinutes
    THEN m
    ELSE LET m1 == [m EXCEPT !.state.workTime = minutes]
             m2 == IF ~m1.state.isBreak /\ ~m1.state.isActive
                     THEN [m1 EXCEPT !.state.timeRemaining = minutes * SecondsPerMinute]
                     ELSE m1
             m3 == saveSettings(m2, bad)
         IN Emitting(m3, POMODORO_SETTINGS_CHANGED, m3.state, bad)

\* PomodoroService.setWorkTime(minutes)
setWorkTime(m, minutes, bad) ==
  IF minutes < MinMinutes \/ minutes > MaxMinutes
    THEN m
    ELSE LET m1 == [m EXCEPT !.state.workTime = minutes]
             m2 == IF ~m1.state.isBreak /\ ~m1.state.isActive
                     THEN [m1 EXCEPT !.state.timeRemaining = minutes * SecondsPerMinute]
                     ELSE m1
             m3 == saveSettings(m2, bad)
         IN Emitting(m3, POMODORO_SETTINGS_CHANGED, m3.state, bad)

\* PomodoroService.setBreakTime(minutes)
setBreakTime(m, minutes, bad) ==
  IF minutes < MinMinutes \/ minutes > MaxMinutes
    THEN m
    ELSE LET m1 == [m EXCEPT !.state.breakTime = minutes]
             m2 == IF m1.state.isBreak /\ ~m1.state.isActive
                     THEN [m1 EXCEPT !.state.timeRemaining = minutes * SecondsPerMinute]
                     ELSE m1
             m3 == saveSettings(m2, bad)
         IN Emitting(m3, POMODORO_SETTINGS_CHANGED, m3.state, bad)

\* The mode toggled with timeRemaining set to the length of the mode left.
NextPhaseOldLength(m) ==
  [m EXCEPT !.state = [m.state EXCEPT !.isBreak = ~m.state.isBreak,
                                      !.timeRemaining = PhaseSeconds(m.state)]]

\* The mode toggled and timeRemaining set to the new mode's length.
NextPhase(m) ==
  LET toggled == [m.state EXCEPT !.isBreak = ~m.state.isBreak]
  IN [m EXCEPT !.state = [toggled EXCEPT !.timeRemaining = PhaseSeconds(toggled)]]

\* The work-started / break-started publish for the mode just entered.
PhaseStarted(m, bad) ==
  Emitting(m, IF m.state.isBreak THEN BREAK_STARTED ELSE WORK_STARTED, m.state, bad)

\* PomodoroService._handleTimerComplete()
handleTimerComplete(m, bad) ==
  LET m1 == [m EXCEPT !.timerInterval = FALSE]
      m2 == Emitting(m1, TIMER_COMPLETED,
                     [wasBreak |-> m1.state.isBreak,
                      nextMode |-> IF ~m1.state.isBreak THEN "break" ELSE "work"],
                     bad)
  IN IF m2.threw
       THEN m2
       ELSE LET m3 == PhaseStarted(NextPhase(m2), bad)
            IN start(m3, bad)

\* _tick() without the test of isActive.
tickUnguarded(m, bad) ==
  LET m1 == [m EXCEPT !.state.timeRemaining = @ - 1]
      m2 == Emitting(m1, TIMER_TICK, m1.state, bad)
  IN IF ~m2.threw /\ m2.state.timeRemaining <= 0
       THEN handleTimerComplete(m2, bad)
       ELSE m2

\* PomodoroService._tick()
tick(m, bad) ==
  IF ~m.state.isActive
    THEN m
    ELSE LET m1 == [m EXCEPT !.state.timeRemaining = @ - 1]
             m2 == Emitting(m1, TIMER_TICK, m1.state, bad)
         IN IF ~m2.threw /\ m2.state.timeRemaining <= 0
              THEN handleTimerComplete(m2, bad)
              ELSE m2

\* PomodoroService.startNextPhase()
startNextPhase(m, bad) ==
  LET m1 == PhaseStarted(NextPhase(m), bad)
  IN start(m1, bad)

\* The most seconds below zero the model follows the timer.
MaxOvershoot == 2

PomodoroMethods ==
  {"start", "pause", "reset", "toggle", "setWorkTime", "setBreakTime",
   "startNextPhase"}

\* The methods that keep the projects of the two modes, and loadSettings.
ProjectMethods ==
  {"setWorkProjectId", "setBreakProjectId", "setProjectRelationship",
   "rememberTaskForProject", "loadSettings"}

\* The PomodoroService method called on m; `minutes` is the argument of the
\* duration setters and the pair of arguments of the project methods.
Apply(method, minutes, m, bad) ==
  CASE method = "start"          -> start(m, bad)
    [] method = "pause"          -> pause(m, bad)
    [] method = "reset"          -> reset(m, bad)
    [] method = "toggle"         -> toggle(m, bad)
    [] method = "setWorkTime"    -> setWorkTime(m, minutes, bad)
    [] method = "setBreakTime"   -> setBreakTime(m, minutes, bad)
    [] method = "startNextPhase" -> startNextPhase(m, bad)
    [] method = "setWorkProjectId"  -> setWorkProjectId(m, minutes[1], bad)
    [] method = "setBreakProjectId" -> setBreakProjectId(m, minutes[1], bad)
    [] method = "setProjectRelationship" ->
         setProjectRelationship(m, minutes[1], minutes[2], bad)
    [] method = "rememberTaskForProject" ->
         rememberTaskForProject(m, minutes[1], minutes[2], bad)
    [] method = "loadSettings" ->
         [m EXCEPT !.state = loadSettings(@, GetPomodoroSettings([pomodoro |-> m.saved]))]

\* What is kept about the timer once `method` has run on state prev and
\* left state next: whether pause() or reset() was the latest of the calls
\* that stop or start it, and how many ticks have run since a reset() with
\* nothing but starts in between (-1: not such a run).
Watched(method, prev, next) ==
  [stopped |->
     CASE method \in {"pause", "reset"}          -> TRUE
       [] method = "toggle"                      -> prev.isActive
       [] method \in {"start", "startNextPhase"} -> FALSE
       [] OTHER                                  -> watch.stopped,
   ticks |->
     CASE method = "reset"                       -> 0
       [] method \in {"pause", "startNextPhase"} -> -1
       [] method = "toggle" /\ prev.isActive     -> -1
       [] method = "setWorkTime" /\ next.workTime # prev.workTime -> -1
       [] method = "loadSettings"                -> -1
       [] method = "tick" /\ watch.ticks >= 0 /\ prev.isActive -> watch.ticks + 1
       [] OTHER                                  -> watch.ticks]

\* The service left as the call m leaves it.
PomodoroKept(method, m) ==
  /\ pomodoro' = [state |-> m.state, timerInterval |-> m.timerInterval]
  /\ serviceStore' = [serviceStore EXCEPT !.pomodoro = m.saved]
  /\ watch' = Watched(method, pomodoro.state, m.state)

\* The call m of `method` returns to its caller, the DefaultTheme's handlers
\* run: a completion that reached the theme leaves its timeout pending.
PomodoroReturns(method, minutes, m) ==
  \E r \in {m} :
    /\ PomodoroKept(method, r)
    /\ last' = [op |-> "pomodoro", method |-> method, minutes |-> minutes,
                prev |-> pomodoro.state, prevSaved |-> serviceStore.pomodoro,
                stopped |-> watch.stopped, run |-> watch'.ticks,
                events |-> r.events, threw |-> r.threw]
    /\ ThemeRan(r.entries, r.threw)
    /\ UNCHANGED <<themes, activeTheme, store, globalWindow, status, calls,
                   todoist, requests, rendererVars>>

\* A call of a PomodoroService method (tray menu, IPC, a theme).
PomodoroCall(method, minutes, bad) ==
  PomodoroReturns(method, minutes,
                  Apply(method, minutes, Running(pomodoro, serviceStore.pomodoro), bad))

\* The 'save-app-settings' handler of the main process given settings with
\* a pomodoro part: savePomodoroSettings is called with it as it is; the
\* PomodoroService is not told.
SaveAppSettings(settings) ==
  PomodoroReturns("save-app-settings", settings,
                  savePomodoroSettings(Running(pomodoro, serviceStore.pomodoro),
                                       settings, Null))

\* The interval set by start() fires and runs _tick().
IntervalFires(bad) ==
  /\ pomodoro.timerInterval
  /\ pomodoro.state.timeRemaining > -MaxOvershoot
  /\ PomodoroReturns("tick", 0, tick(Running(pomodoro, serviceStore.pomodoro), bad))

\* A callback of an interval that pause() or reset() has cleared runs _tick().
LateTick ==
  /\ ~pomodoro.timerInterval
  /\ watch.stopped
  /\ PomodoroReturns("tick", 0, tick(Running(pomodoro, serviceStore.pomodoro), Null))

\* ------------------------------------------- the DefaultTheme's timeouts

\* The callback of a timeout set by onPomodoroCompleted returns from the
\* call m of startNextPhase().
AutoStartReturns(m) ==
  \E r \in {m} :
    /\ PomodoroKept("startNextPhase", r)
    /\ defaultTheme' = [ThemeHandlersRan(defaultTheme, r.entries, r.threw)
                           EXCEPT !.timeouts = @ - 1]
    /\ last' = [op |-> "timeout", theme |-> "default",
                active |-> activeTheme, lifecycle |-> status["mDefault"],
                called |-> <<"startNextPhase">>,
                prev |-> pomodoro.state, events |-> r.events]
    /\ UNCHANGED <<themes, activeTheme, store, globalWindow, status, calls,
                   todoist, requests, rendererVars>>

\* A timeout set by onPomodoroCompleted fires: its callback calls
\* this.services.pomodoro.startNextPhase(), whatever has become of the theme
\* since (DefaultTheme.deactivate() logs and resolves: it clears no timeout).
AutoStartFires(bad) ==
  /\ defaultTheme.timeouts > 0
  /\ AutoStartReturns(startNextPhase(Running(pomodoro, serviceStore.pomodoro), bad))

\* -------------------------------------------------------------- game themes

\* The most frame loops followed at once, and the most style elements.
MaxLoops == 2
MaxStyles == 3

\* The themes the renderer-side ThemeManager is asked to register and
\* activate: a game theme (FarmingTheme) and the plain DefaultTheme.
RendererThemeNames == {"farming", "default"}

\* How a game theme's activate() ends: resolved, thrown before
\* _startGameLoop() (in _createGameInterface) or thrown after it (in
\* _setupEventListeners).
ActivateOutcomes == {"ok", "throwsBeforeLoop", "throwsAfterLoop"}

\* A frame loop is named by a number; the request id of its pending frame is
\* kept as that number.
FreeLoop(g) == CHOOSE k \in 1..MaxLoops : k \notin g.loops /\
                                         \A j \in 1..(k - 1) : j \in g.loops

\* GameThemeTemplate._startGameLoop(): a new loop's first frame is requested
\* and its id stored in gameLoopId, whatever gameLoopId held.
startGameLoop(g) ==
  [g EXCEPT !.loops = @ \cup {FreeLoop(g)}, !.gameLoopId = FreeLoop(g)]

\* GameThemeTemplate._stopGameLoop(): the frame gameLoopId names is
\* cancelled and gameLoopId cleared.
stopGameLoop(g) ==
  IF g.gameLoopId # NoFrame
    THEN [g EXCEPT !.loops = @ \ {g.gameLoopId}, !.gameLoopId = NoFrame]
    ELSE g

\* GameThemeTemplate.loadStyles(): a style element is created and appended
\* to document.head.
loadStyles(g) == [g EXCEPT !.styles = @ + 1]

\* GameThemeTemplate.activate()
activateGame(g, outcome) ==
  CASE outcome = "throwsBeforeLoop" -> [g EXCEPT !.lifecycle = "failed"]
    [] outcome = "throwsAfterLoop"  -> [startGameLoop(g) EXCEPT !.lifecycle = "failed"]
    [] OTHER                        -> [startGameLoop(g) EXCEPT !.lifecycle = "active"]

\* GameThemeTemplate.deactivate()
deactivateGame(g) == [stopGameLoop(g) EXCEPT !.lifecycle = "deactivated"]

\* The renderer-side ThemeManager.registerTheme(themeName, ThemeClass)
RegisterRendererTheme(themeName) ==
  /\ rendererThemes' = [rendererThemes EXCEPT !.themes = @ \cup {themeName}]
  /\ last' = [op |-> "registerRendererTheme", name |-> themeName,
              had |-> themeName \in rendererThemes.themes]
  /\ UNCHANGED <<themes, activeTheme, store, globalWindow, status, calls,
                 pomodoro, todoist, serviceStore, watch, requests,
                 defaultTheme, gameTheme, surface, bus>>

\* GameThemeTemplate.unloadStyles(): the style element of the theme that
\* getElementById finds is removed, when there is one.
unloadStyles(g) == IF g.styles > 0 THEN [g EXCEPT !.styles = @ - 1] ELSE g

\* A caller unloads the game theme's styles.
RendererUnloadStyles ==
  /\ gameTheme' = unloadStyles(gameTheme)
  /\ last' = [op |-> "unloadStyles", styles |-> gameTheme.styles]
  /\ UNCHANGED <<themes, activeTheme, store, globalWindow, status, calls,
                 pomodoro, todoist, serviceStore, watch, requests,
                 defaultTheme, rendererThemes, surface, bus>>

\* The most renderer-side activateTheme calls suspended at once.
MaxRendererCalls == 2

\* A renderer-side activateTheme(themeName) suspended at pc; outcome is how
\* the activate() it awaits ends.
RendererCall(themeName, pc, outcome) ==
  [name |-> themeName, pc |-> pc, outcome |-> outcome]

\* The game theme once the deactivate() of the renderer-side active theme
\* has been called: a game theme's runs to its `await super.deactivate()`.
previousDeactivated(g) ==
  IF rendererThemes.activeTheme = "farming" THEN deactivateGame(g) ELSE g

\* Where activateTheme waits once it has called the target's initialize():
\* GameThemeTemplate.initialize() stops at `await this.loadAssets()`, the
\* plain theme's at `await this.loadStyles()`.
initializeCalled(themeName) ==
  IF themeName = "farming" THEN "loadingAssets" ELSE "loadingStyles"

\* The game theme once the target's activate() has been called (it has no
\* await of its own).
targetActivated(g, themeName, outcome) ==
  IF themeName = "farming" THEN activateGame(g, outcome) ELSE g

\* Call i of the renderer-side ThemeManager moves on to pc, leaving the game
\* theme as g.
RendererAdvances(i, g, pc, outcome) ==
  /\ gameTheme' = g
  /\ rendererThemes' = [rendererThemes EXCEPT !.calls[i].pc = pc,
                                               !.calls[i].outcome = outcome]
  /\ last' = [op |-> "rendererResumed", name |-> rendererThemes.calls[i].name,
              pc |-> pc]
  /\ UNCHANGED <<themes, activeTheme, store, globalWindow, status, calls,
                 pomodoro, todoist, serviceStore, watch, requests,
                 defaultTheme, surface, bus>>

\* The renderer-side ThemeManager.activateTheme(themeName) up to its first
\* await: the lookup, then the call of the active theme's deactivate() or,
\* with nothing active, of the target's initialize().
RendererActivateTheme(themeName) ==
  IF themeName \notin rendererThemes.themes
    THEN /\ last' = [op |-> "rendererActivate", name |-> themeName,
                     found |-> FALSE, outcome |-> "ok"]
         /\ UNCHANGED <<themes, activeTheme, store, globalWindow, status, calls,
                        serviceVars>>
    ELSE /\ Len(rendererThemes.calls) < MaxRendererCalls
         /\ gameTheme' = IF rendererThemes.activeTheme # Null
                           THEN previousDeactivated(gameTheme) ELSE gameTheme
         /\ rendererThemes' =
              [rendererThemes EXCEPT !.calls =
                 Append(@, RendererCall(themeName,
                                        IF rendererThemes.activeTheme # Null
                                          THEN "deactivating"
                                          ELSE initializeCalled(themeName),
                                        "ok"))]
         /\ last' = [op |-> "rendererActivateCalled", name |-> themeName,
                     before |-> rendererThemes.activeTheme]
         /\ UNCHANGED <<themes, activeTheme, store, globalWindow, status, calls,
                        pomodoro, todoist, serviceStore, watch, requests,
                        defaultTheme, surface, bus>>

\* activateTheme after `await this.activeTheme.deactivate()`: the target's
\* initialize() is called.
RendererDeactivated(i) ==
  /\ i \in 1..Len(rendererThemes.calls)
  /\ rendererThemes.calls[i].pc = "deactivating"
  /\ RendererAdvances(i, gameTheme,
                      initializeCalled(rendererThemes.calls[i].name), "ok")

\* GameThemeTemplate.initialize() after `await this.loadAssets()`:
\* loadStyles() is called.
RendererAssetsLoaded(i) ==
  /\ i \in 1..Len(rendererThemes.calls)
  /\ rendererThemes.calls[i].pc = "loadingAssets"
  /\ gameTheme.styles < MaxStyles
  /\ RendererAdvances(i, loadStyles(gameTheme), "loadingStyles", "ok")

\* initialize() after `await this.loadStyles()` returns, and activateTheme
\* after `await theme.initialize()` calls the target's activate(), which
\* ends with outcome.
RendererInitialized(i, outcome) ==
  /\ i \in 1..Len(rendererThemes.calls)
  /\ rendererThemes.calls[i].pc = "loadingStyles"
  /\ rendererThemes.calls[i].name = "farming" =>
       Cardinality(gameTheme.loops) < MaxLoops
  /\ RendererAdvances(i, targetActivated(gameTheme, rendererThemes.calls[i].name,
                                         outcome),
                      "activating", outcome)

\* activateTheme after `await theme.activate()`: when that resolved the
\* pointer is set and settingsService.saveCurrentTheme(themeName) writes the
\* store and publishes (bad is the theme handler that throws meanwhile);
\* the catch block logs whatever was thrown.
RendererActivated(i, bad) ==
  /\ i \in 1..Len(rendererThemes.calls)
  /\ rendererThemes.calls[i].pc = "activating"
  /\ \E c \in {rendererThemes.calls[i]} :
     \E saved \in {SaveCurrentThemePublish(c.name, activeTheme, bad)} :
       /\ rendererThemes' =
            [rendererThemes EXCEPT !.calls = Remove(@, i),
                                   !.activeTheme = IF c.outcome = "ok"
                                                     THEN c.name ELSE @]
       /\ store' = IF c.outcome = "ok"
                     THEN StoreSetCurrentTheme(store, c.name) ELSE store
       /\ IF c.outcome = "ok"
            THEN ThemeRan(saved.entries, saved.threw)
            ELSE UNCHANGED defaultTheme
       /\ last' = [op |-> "rendererActivate", name |-> c.name, found |-> TRUE,
                   outcome |-> c.outcome,
                   entries |-> IF c.outcome = "ok" THEN saved.entries ELSE <<>>]
       /\ UNCHANGED <<themes, activeTheme, globalWindow, status, calls,
                      pomodoro, todoist, serviceStore, watch, requests,
                      gameTheme, surface, bus>>

\* The frame requested by loop k arrives: the gameLoop callback updates the
\* game and requests the loop's next frame, storing its id in gameLoopId.
\* A frame is a task of its own: what an activateTheme call awaits is
\* settled already, so the call has run to its end before a frame comes.
FrameArrives(k) ==
  /\ rendererThemes.calls = <<>>
  /\ k \in gameTheme.loops
  /\ gameTheme' = [gameTheme EXCEPT !.gameLoopId = k]
  /\ last' = [op |-> "frame", loop |-> k, lifecycle |-> gameTheme.lifecycle,
              active |-> rendererThemes.activeTheme]
  /\ UNCHANGED <<themes, activeTheme, store, globalWindow, status, calls,
                 pomodoro, todoist, serviceStore, watch, requests,
                 defaultTheme, rendererThemes, surface, bus>>

\* --------------------------------------------------------- display surface

\* The most renderer imports pending at once.
MaxLoads == 2

\* ThemeAPI._clearThemeContent(): the renderer is dropped, the theme
\* container, if the document has one, emptied and the theme-css-* elements
\* removed; what a renderer attached to the window stays (no renderer's
\* cleanup() is called).
clearThemeContent(sf) ==
  [sf EXCEPT !.themeRenderer = Null, !.listening = FALSE,
             !.container = IF sf.themeContainer THEN Null ELSE @]

\* setupThemeContainer() of the bridge: a #theme-container element is
\* created, empty, and put into the document unless there is one already.
setupThemeContainer(sf) ==
  IF sf.themeContainer
    THEN sf
    ELSE [sf EXCEPT !.themeContainer = TRUE, !.container = Null]

\* The onThemeChanged handler for a notice of theme that carries settings
\* (Undefined: a notice without any): currentTheme and themeSettings are set
\* and _loadThemeRenderer runs up to its `await import(rendererPath)`.
ThemeChangedArrives(theme, settings) ==
  /\ Len(surface.loads) < MaxLoads
  /\ surface' = [clearThemeContent(surface) EXCEPT
                   !.currentTheme = theme, !.themeSettings = settings,
                   !.loads = Append(@, theme)]
  /\ last' = [op |-> "themeChangedNotice", theme |-> theme,
              settings |-> settings, pending |-> Len(surface.loads)]
  /\ UNCHANGED <<themes, activeTheme, store, globalWindow, status, calls,
                 pomodoro, todoist, serviceStore, watch, requests,
                 defaultTheme, gameTheme, rendererThemes, bus>>

\* The onThemeSettingsChanged handler for a 'theme:settings-updated' notice
\* of themeName: the settings are kept when the notice is for the current
\* theme.
ThemeSettingsChangedArrives(themeName, settings) ==
  /\ surface' = IF surface.currentTheme # Null /\ themeName = surface.currentTheme
                  THEN [surface EXCEPT !.themeSettings = settings]
                  ELSE surface
  /\ last' = [op |-> "themeSettingsNotice", theme |-> themeName,
              settings |-> settings, current |-> surface.currentTheme,
              before |-> surface.themeSettings]
  /\ UNCHANGED <<themes, activeTheme, store, globalWindow, status, calls,
                 pomodoro, todoist, serviceStore, watch, requests,
                 defaultTheme, gameTheme, rendererThemes, bus>>

\* ThemeAPI.initialize() up to its first await: the main process is asked
\* for the active theme ('theme:get-active-theme').
themeAPIInitialize(sf) == [sf EXCEPT !.initialize = "getActiveTheme"]

\* The bridge's DOMContentLoaded listener, which the document calls once:
\* setupThemeContainer(), then initThemeAPI() up to the first await of
\* themeAPI.initialize().
DOMContentLoaded ==
  /\ ~surface.ready
  /\ surface.initialize = Null
  /\ surface' = [themeAPIInitialize(setupThemeContainer(surface)) EXCEPT
                   !.ready = TRUE]
  /\ last' = [op |-> "domContentLoaded", current |-> surface.currentTheme,
              pending |-> Len(surface.loads)]
  /\ UNCHANGED <<themes, activeTheme, store, globalWindow, status, calls,
                 pomodoro, todoist, serviceStore, watch, requests,
                 defaultTheme, gameTheme, rendererThemes, bus>>

\* initialize() resumed with the main process' answer: an active theme is
\* kept as currentTheme and its settings are asked for
\* ('theme:get-theme-settings'); no renderer is loaded.  A Null answer is
\* null: the call ends.
activeThemeAnswered(sf, answer) ==
  IF answer # Null
    THEN [sf EXCEPT !.currentTheme = answer, !.initialize = "getThemeSettings"]
    ELSE [sf EXCEPT !.initialize = Null]

\* The answer to 'theme:get-active-theme' arrives.
ActiveThemeAnswered(answer) ==
  /\ surface.initialize = "getActiveTheme"
  /\ surface' = activeThemeAnswered(surface, answer)
  /\ last' = [op |-> "activeThemeAnswered", answer |-> answer,
              current |-> surface.currentTheme]
  /\ UNCHANGED <<themes, activeTheme, store, globalWindow, status, calls,
                 pomodoro, todoist, serviceStore, watch, requests,
                 defaultTheme, gameTheme, rendererThemes, bus>>

\* The answer to 'theme:get-theme-settings' arrives: initialize() keeps
\* what _invokeMain returns as themeSettings, the settings object or, the
\* invocation having failed ("throw"), null, and returns.
ThemeSettingsAnswered(outcome) ==
  /\ surface.initialize = "getThemeSettings"
  /\ surface' = [surface EXCEPT
                   !.themeSettings = IF outcome = "ok" THEN SettingsObject
                                                       ELSE Null,
                   !.initialize = Null]
  /\ last' = [op |-> "themeSettingsAnswered", outcome |-> outcome,
              current |-> surface.currentTheme]
  /\ UNCHANGED <<themes, activeTheme, store, globalWindow, status, calls,
                 pomodoro, todoist, serviceStore, watch, requests,
                 defaultTheme, gameTheme, rendererThemes, bus>>

\* The most 'get-next-task' messages of renderer initializations on their
\* way to the main process at once.
MaxInitialRequests == 2

\* The most renderer instances of one theme with listeners on the window at
\* once.
MaxAttached == 2

\* Whether DefaultThemeRenderer._applyThemeSettings() throws: it reads
\* themeAPI.themeSettings.backgroundColor, a TypeError when themeSettings is
\* null or undefined.
applyThemeSettingsThrows(sf) == sf.themeSettings # SettingsObject

\* renderer.initialize(container, themeAPI) of theme's renderer: _createUI
\* sets the container's content and _setupEventListeners attaches
\* listeners, some of them to the window; the DefaultThemeRenderer then
\* applies the theme settings and, unless that throws, requests its initial
\* data with themeAPI.nextTask(), which sends 'get-next-task' to the main
\* process.
rendererInitialized(sf, theme) ==
  [sf EXCEPT !.container = theme, !.attached[theme] = @ + 1,
             !.initialRequests =
                IF theme = "default" /\ ~applyThemeSettingsThrows(sf)
                  THEN @ + 1 ELSE @]

\* ThemeAPI.registerRenderer(renderer): a renderer that is an object with
\* initialize and onMainEvent (the renderer of a theme; Null: any other
\* value) becomes themeRenderer; listening tells whether it has listeners
\* attached.
registerRenderer(sf, renderer, listening) ==
  IF renderer = Null
    THEN sf
    ELSE [sf EXCEPT !.themeRenderer = renderer, !.listening = listening]

\* themeAPI.registerRenderer(renderer) called with a renderer just
\* constructed, or with a value that is no renderer.
RegisterRenderer(renderer) ==
  /\ surface' = registerRenderer(surface, renderer, FALSE)
  /\ last' = [op |-> "registerRenderer", renderer |-> renderer,
              before |-> surface.themeRenderer]
  /\ UNCHANGED <<themes, activeTheme, store, globalWindow, status, calls,
                 pomodoro, todoist, serviceStore, watch, requests,
                 defaultTheme, gameTheme, rendererThemes, bus>>

\* DefaultThemeRenderer.cleanup() of the registered renderer: the listeners
\* the instance has attached are removed and its list of them is emptied.
RendererCleanup ==
  /\ surface.themeRenderer = "default"
  /\ surface' = IF surface.listening
                  THEN [surface EXCEPT !.attached["default"] = @ - 1,
                                       !.listening = FALSE]
                  ELSE surface
  /\ last' = [op |-> "cleanup", listening |-> surface.listening,
              before |-> surface.attached]
  /\ UNCHANGED <<themes, activeTheme, store, globalWindow, status, calls,
                 pomodoro, todoist, serviceStore, watch, requests,
                 defaultTheme, gameTheme, rendererThemes, bus>>

\* _loadThemeRenderer from the import on: the renderer is constructed and
\* registered, and initialized if the document has a #theme-container
\* (`if (container && renderer.initialize)`); a failed import and an
\* exception of initialize are caught and logged.
rendererLoaded(sf, theme, outcome) ==
  IF outcome = "ok"
    THEN IF sf.themeContainer
           THEN rendererInitialized(registerRenderer(sf, theme, TRUE), theme)
           ELSE registerRenderer(sf, theme, FALSE)
    ELSE sf

\* The import of pending load i settles with outcome.
RendererModuleLoaded(i, outcome) ==
  /\ i \in 1..Len(surface.loads)
  /\ surface.initialRequests < MaxInitialRequests
  /\ surface.attached[surface.loads[i]] < MaxAttached
  /\ surface' = [rendererLoaded(surface, surface.loads[i], outcome) EXCEPT
                   !.loads = Remove(@, i)]
  /\ last' = [op |-> "rendererLoaded", theme |-> surface.loads[i],
              outcome |-> outcome,
              initialized |-> (outcome = "ok" /\ surface.themeContainer),
              threw |-> (/\ outcome = "ok" /\ surface.themeContainer
                         /\ surface.loads[i] = "default"
                         /\ applyThemeSettingsThrows(surface)),
              current |-> surface.currentTheme,
              pending |-> Len(surface.loads)]
  /\ UNCHANGED <<themes, activeTheme, store, globalWindow, status, calls,
                 pomodoro, todoist, serviceStore, watch, requests,
                 defaultTheme, gameTheme, rendererThemes, bus>>

\* ------------------------------------------------------------- run-time bus

\* The most handlers subscribed to one name at once.
MaxListeners == 3

\* The handlers subscribed to the bus: h1 returns, h2 throws, h3 subscribes
\* h4 to the name it is called for (unless h4 is subscribed to it), h4
\* returns.
BusHandlers == {"h1", "h2", "h3", "h4"}

\* Whether x is an element of seq.
InSeq(x, seq) == \E i \in 1..Len(seq) : seq[i] = x

\* The index of the last x in seq (0: none).
LastIndexOf(seq, x) ==
  IF InSeq(x, seq)
    THEN CHOOSE i \in 1..Len(seq) : seq[i] = x /\ \A j \in (i + 1)..Len(seq) : seq[j] # x
    ELSE 0

\* EventBus.subscribe(eventName, callback): this.on appends the callback
\* to the name's listeners.
subscribe(b, name, h) ==
  [b EXCEPT !.listeners[name] = Append(@, h), !.once[name] = Append(@, FALSE)]

\* EventBus.subscribeOnce(eventName, callback): this.once appends a wrapper
\* of the callback that removes itself when it is called.
subscribeOnce(b, name, h) ==
  [b EXCEPT !.listeners[name] = Append(@, h), !.once[name] = Append(@, TRUE)]

\* Entry i of the name's listeners removed.
listenerRemoved(b, name, i) ==
  [b EXCEPT !.listeners[name] = Remove(@, i), !.once[name] = Remove(@, i)]

\* The function subscribe returned: this.off removes the callback's most
\* recently added entry, a once-wrapper of it included.
unsubscribe(b, name, h) ==
  IF InSeq(h, b.listeners[name])
    THEN listenerRemoved(b, name, LastIndexOf(b.listeners[name], h))
    ELSE b

\* The bus as the listener at position i of the name is about to be called:
\* a once-wrapper has removed itself.
wrapperCalled(b, name, i, isOnce) ==
  IF isOnce THEN listenerRemoved(b, name, i) ELSE b

\* The bus once handler h has run for a publish of name.
handlerRuns(b, name, h) ==
  IF h = "h3" /\ ~InSeq("h4", b.listeners[name])
              /\ Len(b.listeners[name]) < MaxListeners
    THEN [subscribe(b, name, "h4") EXCEPT !.fresh[name] = @ \cup {"h4"}]
    ELSE b

\* A handler's call put in front of the calls r that follow it.
Preceded(h, r) == [r EXCEPT !.invoked = <<h>> \o @]

\* EventEmitter.emit as EventBus.publish calls it: the listeners of the name
\* as they were when emit was called (snapshot, with wrapped telling which
\* are once-wrappers) run in order on the publisher's stack; a handler that
\* throws ends the loop.  kept counts the listeners called so far that are
\* still subscribed: the one called next stands right after them.
RECURSIVE emit(_, _, _, _, _)
emit(snapshot, wrapped, b, name, kept) ==
  IF snapshot = <<>>
    THEN [bus |-> b, invoked |-> <<>>, threw |-> FALSE]
    ELSE IF Head(snapshot) = "h2"
           THEN [bus |-> wrapperCalled(b, name, kept + 1, Head(wrapped)),
                 invoked |-> <<"h2">>, threw |-> TRUE]
           ELSE Preceded(Head(snapshot),
                         emit(Tail(snapshot), Tail(wrapped),
                              handlerRuns(wrapperCalled(b, name, kept + 1,
                                                        Head(wrapped)),
                                          name, Head(snapshot)),
                              name, IF Head(wrapped) THEN kept ELSE kept + 1))

\* EventBus.publish(eventName, data) on bus b.
publish(b, name) ==
  emit(b.listeners[name], b.once[name], [b EXCEPT !.fresh[name] = {}], name, 0)

\* A component subscribes handler h to name.
BusSubscribe(name, h) ==
  /\ Len(bus.listeners[name]) < MaxListeners
  /\ bus' = subscribe(bus, name, h)
  /\ last' = [op |-> "busSubscribe", name |-> name, handler |-> h]
  /\ UNCHANGED <<themes, activeTheme, store, globalWindow, status, calls,
                 pomodoro, todoist, serviceStore, watch, requests,
                 defaultTheme, gameTheme, rendererThemes, surface>>

\* A component subscribes handler h to name for one publish.
BusSubscribeOnce(name, h) ==
  /\ Len(bus.listeners[name]) < MaxListeners
  /\ bus' = subscribeOnce(bus, name, h)
  /\ last' = [op |-> "busSubscribeOnce", name |-> name, handler |-> h]
  /\ UNCHANGED <<themes, activeTheme, store, globalWindow, status, calls,
                 pomodoro, todoist, serviceStore, watch, requests,
                 defaultTheme, gameTheme, rendererThemes, surface>>

\* A component calls the unsubscribe function of handler h for name.
BusUnsubscribe(name, h) ==
  /\ InSeq(h, bus.listeners[name])
  /\ bus' = unsubscribe(bus, name, h)
  /\ last' = [op |-> "busUnsubscribe", name |-> name, handler |-> h]
  /\ UNCHANGED <<themes, activeTheme, store, globalWindow, status, calls,
                 pomodoro, todoist, serviceStore, watch, requests,
                 defaultTheme, gameTheme, rendererThemes, surface>>

\* The publish r of name returns (or throws) to its caller.
BusPublished(name, r) ==
  /\ bus' = r.bus
  /\ last' = [op |-> "busPublish", name |-> name,
              before |-> bus.listeners[name], awaited |-> bus.fresh[name],
              invoked |-> r.invoked, added |-> r.bus.fresh[name],
              after |-> r.bus.listeners[name], threw |-> r.threw]
  /\ UNCHANGED <<themes, activeTheme, store, globalWindow, status, calls,
                 pomodoro, todoist, serviceStore, watch, requests,
                 defaultTheme, gameTheme, rendererThemes, surface>>

\* A component publishes name.
BusPublish(name) == BusPublished(name, publish(bus, name))

\* ----------------------------------------------------------- TodoistService

PROJECTS_LOADED == "todoist:projects:loaded"

\* A call into the TodoistService (or a response callback) under way: the
\* service's fields, the stored 'todoist' entry, the events published so far,
\* the theme handlers they reached and whether an exception is travelling.
Serving(svc, stored) ==
  [tasks |-> svc.tasks, projects |-> svc.projects,
   currentTaskIndex |-> svc.currentTaskIndex,
   apiKey |-> svc.apiKey, selectedProjectId |-> svc.selectedProjectId,
   saved |-> stored,
   events |-> <<>>, entries |-> <<>>, threw |-> FALSE]

\* The tasks-loaded payload built from the service's fields; a null
\* currentTask is a payload without the field.
TasksLoadedPayload(m) ==
  IF m.tasks = <<>>
    THEN [tasks |-> m.tasks, currentTaskIndex |-> m.currentTaskIndex]
    ELSE [tasks |-> m.tasks, currentTaskIndex |-> m.currentTaskIndex,
          currentTask |-> getCurrentTask(m)]

\* The payload { tasks: [], taskIds: [], currentTaskIndex: 0, currentTask: null }.
EmptyTasksLoaded == [tasks |-> <<>>, currentTaskIndex |-> 0]

\* TodoistService._saveSettings(): settingsService.saveTodoistSettings sets
\* the store entry and publishes settings-changed.
saveTodoistSettings(m, bad) ==
  IF m.threw
    THEN m
    ELSE Emitting([m EXCEPT !.saved = [apiKey |-> m.apiKey,
                                       selectedProjectId |-> m.selectedProjectId,
                                       currentTaskIndex |-> m.currentTaskIndex]],
                  SETTINGS_CHANGED, [area |-> "todoist"], bad)

\* The tasks-loaded publish that carries the service's lists, cursor and
\* current task.
publishTasksLoaded(m, bad) ==
  Emitting(m, TASKS_LOADED, TasksLoadedPayload(m), bad)

\* The tasks-loaded publish with empty lists and no current task.
publishNoTasks(m, bad) == Emitting(m, TASKS_LOADED, EmptyTasksLoaded, bad)

\* this.currentTaskIndex = index
cursorAt(m, index) == [m EXCEPT !.currentTaskIndex = index]

\* TodoistService.nextTask()
nextTask(m, bad) ==
  IF m.tasks = <<>>
    THEN m
    ELSE publishTasksLoaded(
           saveTodoistSettings(
             cursorAt(m, (m.currentTaskIndex + 1) % Len(m.tasks)), bad), bad)

\* TodoistService.setCurrentTaskIndex(index)
setCurrentTaskIndex(m, index, bad) ==
  IF index < 0 \/ index >= Len(m.tasks)
    THEN m
    ELSE publishTasksLoaded(saveTodoistSettings(cursorAt(m, index), bad), bad)

\* TodoistService.clearApiKey()
clearApiKey(m, bad) ==
  Emitting(
    publishNoTasks(
      saveTodoistSettings(
        [m EXCEPT !.apiKey = FALSE, !.tasks = <<>>, !.projects = <<>>,
                  !.currentTaskIndex = 0, !.selectedProjectId = Null],
        bad), bad),
    PROJECTS_LOADED, [projects |-> <<>>], bad)

\* The error branches of the fetchTasks response handling: the lists are
\* emptied, api-error is published, then an empty tasks-loaded.
tasksFailed(m, code, bad) ==
  publishNoTasks(
    Emitting([m EXCEPT !.tasks = <<>>], API_ERROR, [code |-> code], bad), bad)

\* The error branches with the lists left as they are.
tasksFailedKeepsList(m, code, bad) ==
  publishNoTasks(Emitting(m, API_ERROR, [code |-> code], bad), bad)

\* The lists replaced by those of the response body, the cursor reset when
\* it is past the end of the new list.
tasksFetched(m, body) ==
  [m EXCEPT !.tasks = body,
            !.currentTaskIndex = IF @ >= Len(body) THEN 0 ELSE @]

\* The end of the try block of the fetchTasks response handling, m being
\* the call after the tasks-loaded publish: an exception thrown by a
\* subscriber is caught as if the body had not parsed, otherwise the
\* settings are saved.
tasksPublished(m, bad) ==
  IF m.threw
    THEN tasksFailed([m EXCEPT !.threw = FALSE], "PARSE_ERROR", bad)
    ELSE saveTodoistSettings(m, bad)

\* The code of the api-error a failed fetchTasks response publishes.
FailureCode(outcome) ==
  CASE outcome = "malformed" -> "PARSE_ERROR"
    [] outcome = "status"    -> "API_ERROR"
    [] outcome = "network"   -> "NETWORK_ERROR"

\* The response handling of fetchTasks with error branches that leave the
\* lists as they are.
fetchTasksEndKeepsList(m, outcome, body, bad) ==
  IF outcome = "ok"
    THEN tasksPublished(publishTasksLoaded(tasksFetched(m, body), bad), bad)
    ELSE tasksFailedKeepsList(m, FailureCode(outcome), bad)

\* The response handling of fetchTasks: status 200 with a task list as body
\* ("ok"), status 200 with a body that does not parse ("malformed"), another
\* status ("status"), or a request error ("network").
fetchTasksEnd(m, outcome, body, bad) ==
  IF outcome = "ok"
    THEN tasksPublished(publishTasksLoaded(tasksFetched(m, body), bad), bad)
    ELSE tasksFailed(m, FailureCode(outcome), bad)

\* Array.prototype.indexOf for an element the array holds, counted from 1.
indexOf(seq, x) ==
  CHOOSE k \in DOMAIN seq :
    seq[k] = x /\ \A j \in DOMAIN seq : j < k => seq[j] # x

\* The splice of the completed task out of the lists.
spliced(m, taskId) == [m EXCEPT !.tasks = Remove(@, indexOf(@, taskId))]

\* The cursor reset when it is past the end of the list.
cursorKept(m) ==
  [m EXCEPT !.currentTaskIndex = IF @ >= Len(m.tasks) THEN 0 ELSE @]

\* The completed task removed without the cursor being looked at.
taskClosedKeepsCursor(m, taskId, bad) ==
  IF \A k \in DOMAIN m.tasks : m.tasks[k] # taskId
    THEN m
    ELSE saveTodoistSettings(
           publishTasksLoaded(
             Emitting(spliced(m, taskId),
                      TASK_COMPLETED, [taskId |-> taskId], bad), bad), bad)

\* The status-204 branch of the completeTask response handling: the task is
\* spliced out of the lists when it is in them and the cursor reset when it
\* is past the end; task-completed and tasks-loaded are published and the
\* settings saved.
taskClosed(m, taskId, bad) ==
  IF \A k \in DOMAIN m.tasks : m.tasks[k] # taskId
    THEN m
    ELSE saveTodoistSettings(
           publishTasksLoaded(
             Emitting(cursorKept(spliced(m, taskId)),
                      TASK_COMPLETED, [taskId |-> taskId], bad), bad), bad)

\* The response handling of completeTask(taskId): status 204 ("ok"), another
\* status ("status"), or a request error ("network").
completeTaskEnd(m, taskId, outcome, bad) ==
  CASE outcome = "ok"      -> taskClosed(m, taskId, bad)
    [] outcome = "status"  -> Emitting(m, API_ERROR, [code |-> "API_ERROR"], bad)
    [] outcome = "network" -> Emitting(m, API_ERROR, [code |-> "NETWORK_ERROR"], bad)

\* The most requests the model keeps without a response.
MaxRequests == 2

\* The fields of the service as the call or callback m leaves them.
TodoistLeft(m) ==
  [tasks |-> m.tasks, projects |-> m.projects,
   currentTaskIndex |-> m.currentTaskIndex,
   apiKey |-> m.apiKey, selectedProjectId |-> m.selectedProjectId]

\* A request on its way: of the tasks of a project (or of all), to close
\* task taskId, of the projects, or to add a task with the given content.
Request(kind, taskId, project, content) ==
  [kind |-> kind, taskId |-> taskId, project |-> project, content |-> content]

\* The service left as the call or callback m leaves it, and the active
\* theme as the handlers the call's publishes reached leave it; sent is the
\* request it has issued, if any.
TodoistKept(method, arg, outcome, m, pending) ==
  \E r \in {m} :
    /\ todoist' = TodoistLeft(r)
    /\ serviceStore' = [serviceStore EXCEPT !.todoist = r.saved]
    /\ requests' = pending
    /\ ThemeRan(r.entries, r.threw)
    /\ last' = [op |-> "todoist", method |-> method, arg |-> arg,
                outcome |-> outcome, prev |-> todoist,
                events |-> r.events, threw |-> r.threw]
    /\ UNCHANGED <<themes, activeTheme, store, globalWindow, status, calls,
                   pomodoro, watch, gameTheme, rendererThemes, bus>>

\* The same for a call that does not come from the display surface.
TodoistReturns(method, arg, outcome, m, pending) ==
  /\ TodoistKept(method, arg, outcome, m, pending)
  /\ UNCHANGED surface

\* The 'get-next-task' handler of the main process receives the message a
\* renderer's initialize has sent: it calls todoistService.nextTask() and
\* sends 'display-task'.
GetNextTask(bad) ==
  /\ surface.initialRequests > 0
  /\ surface' = [surface EXCEPT !.initialRequests = @ - 1]
  /\ TodoistKept("nextTask", 0, "ipc",
                 nextTask(Serving(todoist, serviceStore.todoist), bad), requests)

\* nextTask(), setCurrentTaskIndex(index) or clearApiKey().
TodoistCall(method, index, bad) ==
  LET m0 == Serving(todoist, serviceStore.todoist)
      m == CASE method = "nextTask"            -> nextTask(m0, bad)
             [] method = "setCurrentTaskIndex" -> setCurrentTaskIndex(m0, index, bad)
             [] method = "clearApiKey"         -> clearApiKey(m0, bad)
  IN TodoistReturns(method, index, "returned", m, requests)

\* TodoistService.fetchTasks() up to req.end(): without a key api-error is
\* published and no request is made.
FetchTasks ==
  LET m0 == Serving(todoist, serviceStore.todoist)
  IN IF ~todoist.apiKey
       THEN TodoistReturns("fetchTasks", 0, "returned",
                           Emitting(m0, API_ERROR, [code |-> "NO_API_KEY"], Null),
                           requests)
       ELSE /\ Len(requests) < MaxRequests
            /\ TodoistReturns("fetchTasks", 0, "returned", m0,
                              Append(requests,
                                     Request("tasks", Null,
                                             todoist.selectedProjectId, Null)))

\* The task id that is not one: the empty string.
NoTaskId == ""

\* TodoistService.completeTask(taskId) up to req.end(): without a key
\* api-error is published; without a task id the call logs and returns;
\* otherwise the close request is sent.
CompleteTask(taskId) ==
  LET m0 == Serving(todoist, serviceStore.todoist)
  IN IF ~todoist.apiKey
       THEN TodoistReturns("completeTask", taskId, "returned",
                           Emitting(m0, API_ERROR, [code |-> "NO_API_KEY"], Null),
                           requests)
       ELSE IF taskId = NoTaskId
         THEN TodoistReturns("completeTask", taskId, "returned", m0, requests)
         ELSE /\ Len(requests) < MaxRequests
              /\ TodoistReturns("completeTask", taskId, "returned", m0,
                                Append(requests, Request("close", taskId, Null, Null)))

PROJECT_SELECTED == "todoist:project:selected"

\* TodoistService.selectProject(projectId) up to its call of fetchTasks():
\* the project is set and saved and project-selected is published.
selectProject(m, projectId, bad) ==
  Emitting(saveTodoistSettings([m EXCEPT !.selectedProjectId = projectId], bad),
           PROJECT_SELECTED, [projectId |-> projectId], bad)

\* The fetchTasks() call that ends selectProject, m being the call so far:
\* without a key api-error is published, otherwise the request for the
\* selected project's tasks is sent.
SelectProjectFetches(m, projectId) ==
  IF ~m.apiKey
    THEN TodoistReturns("selectProject", projectId, "returned",
                        Emitting(m, API_ERROR, [code |-> "NO_API_KEY"], Null),
                        requests)
    ELSE TodoistReturns("selectProject", projectId, "returned", m,
                        Append(requests, Request("tasks", Null, projectId, Null)))

\* TodoistService.selectProject(projectId)
SelectProject(projectId) ==
  /\ Len(requests) < MaxRequests
  /\ SelectProjectFetches(
       selectProject(Serving(todoist, serviceStore.todoist), projectId, Null),
       projectId)

\* The call m of `method` ends in a request req: without a key api-error is
\* published and no request is made.
Requested(method, arg, m, req) ==
  IF ~m.apiKey
    THEN TodoistReturns(method, arg, "returned",
                        Emitting(m, API_ERROR, [code |-> "NO_API_KEY"], Null),
                        requests)
    ELSE /\ Len(requests) < MaxRequests
         /\ TodoistReturns(method, arg, "returned", m, Append(requests, req))

\* TodoistService.fetchProjects() up to req.end().
FetchProjects ==
  Requested("fetchProjects", 0, Serving(todoist, serviceStore.todoist),
            Request("projects", Null, Null, Null))

\* TodoistService.setApiKey(apiKey): the key is set and saved, then
\* fetchProjects() is called.
SetApiKey(apiKey) ==
  Requested("setApiKey", apiKey,
            saveTodoistSettings([Serving(todoist, serviceStore.todoist)
                                   EXCEPT !.apiKey = apiKey], Null),
            Request("projects", Null, Null, Null))

\* SettingsService.saveTodoistApiKey(apiKey): store.set('todoist.apiKey',
\* apiKey) sets the one field of the stored entry, then settings-changed is
\* published; the TodoistService is not told.
saveTodoistApiKey(m, apiKey, bad) ==
  Emitting([m EXCEPT !.saved = [k \in (DOMAIN m.saved) \cup {"apiKey"} |->
                                  IF k = "apiKey" THEN apiKey ELSE m.saved[k]]],
           SETTINGS_CHANGED, [area |-> "todoist", key |-> "apiKey"], bad)

\* A call of settingsService.saveTodoistApiKey(apiKey).
SaveTodoistApiKey(apiKey) ==
  TodoistReturns("saveTodoistApiKey", apiKey, "returned",
                 saveTodoistApiKey(Serving(todoist, serviceStore.todoist),
                                   apiKey, Null),
                 requests)

\* The content of a task that is the empty string.
NoContent == ""

\* TodoistService.addTask(content, projectId) up to req.end(): with a key
\* and no content it returns at once.
AddTask(content, projectId) ==
  IF todoist.apiKey /\ content = NoContent
    THEN TodoistReturns("addTask", content, "returned",
                        Serving(todoist, serviceStore.todoist), requests)
    ELSE Requested("addTask", content, Serving(todoist, serviceStore.todoist),
                   Request("add", Null, projectId, content))

\* The try block of the fetchProjects response handling up to its call of
\* fetchTasks(): the projects are set and projects-loaded is published.
projectsLoaded(m, body, bad) ==
  Emitting([m EXCEPT !.projects = body], PROJECTS_LOADED, [projects |-> body], bad)

\* The response handling of fetchProjects up to its call of fetchTasks():
\* on status 200 the try block, an exception in it being caught as a body
\* that does not parse; on every failure the projects are emptied and
\* api-error is published.
projectsFetched(m, outcome, body, bad) ==
  LET loaded == IF outcome = "ok" THEN projectsLoaded(m, body, bad) ELSE m
  IN IF outcome = "ok" /\ ~loaded.threw
       THEN loaded
       ELSE Emitting([loaded EXCEPT !.projects = <<>>, !.threw = FALSE], API_ERROR,
                     [code |-> IF outcome = "ok" THEN "PARSE_ERROR"
                               ELSE FailureCode(outcome)], bad)

\* The response handling of addTask up to its call of fetchTasks(): on
\* status 200 task-added is published, otherwise api-error.
taskAdded(m, r, outcome, bad) ==
  CASE outcome = "ok"      -> Emitting(m, TASK_ADDED,
                                       [content |-> r.content,
                                        projectId |-> r.project], bad)
    [] outcome = "status"  -> Emitting(m, API_ERROR, [code |-> "API_ERROR"], bad)
    [] outcome = "network" -> Emitting(m, API_ERROR, [code |-> "NETWORK_ERROR"], bad)

\* The response callback m of request i returns; when it got to call
\* fetchTasks() (fetches), that call publishes api-error without a key and
\* sends the request for the selected project's tasks with one.
ResponseFetches(method, arg, outcome, m, i, fetches) ==
  IF ~fetches
    THEN TodoistReturns(method, arg, outcome, m, Remove(requests, i))
    ELSE IF ~m.apiKey
      THEN TodoistReturns(method, arg, outcome,
                          Emitting(m, API_ERROR, [code |-> "NO_API_KEY"], Null),
                          Remove(requests, i))
      ELSE TodoistReturns(method, arg, outcome, m,
                          Append(Remove(requests, i),
                                 Request("tasks", Null, m.selectedProjectId, Null)))

\* The response to (or the failure of) the projects request i arrives.
ProjectsResponse(i, outcome, body, bad) ==
  /\ requests[i].kind = "projects"
  /\ ResponseFetches("fetchProjects", body, outcome,
                     projectsFetched(Serving(todoist, serviceStore.todoist),
                                     outcome, body, bad),
                     i,
                     /\ outcome = "ok"
                     /\ ~projectsLoaded(Serving(todoist, serviceStore.todoist),
                                        body, bad).threw)

\* The response to (or the failure of) the add request i arrives.
AddResponse(i, outcome, bad) ==
  /\ requests[i].kind = "add"
  /\ outcome # "malformed"
  /\ ResponseFetches("addTask", requests[i].content, outcome,
                     taskAdded(Serving(todoist, serviceStore.todoist),
                               requests[i], outcome, bad),
                     i,
                     /\ outcome = "ok"
                     /\ ~taskAdded(Serving(todoist, serviceStore.todoist),
                                   requests[i], outcome, bad).threw)

\* The response to (or the failure of) the tasks or close request i arrives.
Response(i, outcome, body, bad) ==
  LET m0 == Serving(todoist, serviceStore.todoist)
      r == requests[i]
  IN CASE r.kind = "tasks" ->
            TodoistReturns("fetchTasks", body, outcome,
                           fetchTasksEnd(m0, outcome, body, bad), Remove(requests, i))
       [] r.kind = "close" ->
            /\ outcome # "malformed"
            /\ body = <<>>
            /\ TodoistReturns("completeTask", r.taskId, outcome,
                              completeTaskEnd(m0, r.taskId, outcome, bad),
                              Remove(requests, i))
       [] OTHER -> FALSE

\* ------------------------------------------------------------ renderer events

\* The event names the renderer sends: the ones DefaultTheme.onRendererEvent
\* acts on by calling pomodoro.startNextPhase(), updateSettings(data) or
\* todoist.nextTask(), and one it only logs.
RendererEventNames ==
  {"pomodoro:start-next-phase", "settings:update", "task:next", "custom:event"}

\* The data sent with a renderer event that carries no setting.
NoSetting == [detail |-> "payload"]

\* The DefaultTheme instance and the calls into the two services a renderer
\* event is handled over.
Handling ==
  [theme |-> defaultTheme,
   timer |-> Running(pomodoro, serviceStore.pomodoro),
   tasks |-> Serving(todoist, serviceStore.todoist)]

\* What a main module's onRendererEvent(eventName, data) does to the theme
\* instance and the services of c; bad is the theme handler that throws
\* while the service it calls publishes (Null: none).  ('transparency:update'
\* saves appearance settings, which are not followed.)
onRendererEvent(mod, eventName, data, c, bad) ==
  CASE mod # "mDefault" -> c
    [] eventName = "pomodoro:start-next-phase" ->
         [c EXCEPT !.timer = startNextPhase(@, bad)]
    [] eventName = "settings:update" ->
         [c EXCEPT !.theme = updateSettings(@, data)]
    [] eventName = "task:next" ->
         [c EXCEPT !.tasks = nextTask(@, bad)]
    [] OTHER -> c

\* The renderer event returns (or throws, nothing between the theme handler
\* that threw and the caller of _handleRendererEvent catching): forwarded
\* tells whether the active theme's onRendererEvent was called, handled is
\* what it left.
RendererEventHandled(themeName, eventName, data, forwarded, handled) ==
  \E c \in {handled} :
    /\ pomodoro' = [state |-> c.timer.state, timerInterval |-> c.timer.timerInterval]
    /\ watch' = IF c.timer.events = <<>> THEN watch
                ELSE Watched("startNextPhase", pomodoro.state, c.timer.state)
    /\ todoist' = TodoistLeft(c.tasks)
    /\ serviceStore' = [pomodoro |-> c.timer.saved, todoist |-> c.tasks.saved]
    /\ defaultTheme' = ThemeHandlersRan(c.theme, c.timer.entries \o c.tasks.entries,
                                        c.timer.threw \/ c.tasks.threw)
    /\ last' = [op |-> "rendererEvent", themeName |-> themeName,
                eventName |-> eventName, data |-> data, before |-> activeTheme,
                entries |-> IF forwarded
                              THEN <<Invocation(ActiveModule, "onRendererEvent",
                                                <<eventName, data>>)>>
                                   \o c.timer.entries \o c.tasks.entries
                              ELSE <<>>,
                threw |-> c.timer.threw \/ c.tasks.threw]
    /\ UNCHANGED <<themes, activeTheme, store, globalWindow, status, calls,
                   requests, rendererVars>>

\* _handleRendererEvent without the comparison of themeName with the active
\* theme's name: whatever is active gets the event.
HandleRendererEventUnchecked(themeName, eventName, data, bad) ==
  IF /\ activeTheme # Null
     /\ "onRendererEvent" \in ModuleMethods(ThemesGet(activeTheme).mainModule)
    THEN RendererEventHandled(themeName, eventName, data, TRUE,
                              onRendererEvent(ActiveModule, eventName, data, Handling, bad))
    ELSE RendererEventHandled(themeName, eventName, data, FALSE, Handling)

\* ThemeManager._handleRendererEvent(themeName, eventName, data).  A Null
\* themeName stands for null; bad is the theme handler that throws while the
\* event is handled (Null: none).
HandleRendererEvent(themeName, eventName, data, bad) ==
  IF /\ themeName = activeTheme
     /\ activeTheme # Null
     /\ "onRendererEvent" \in ModuleMethods(ThemesGet(activeTheme).mainModule)
    THEN RendererEventHandled(themeName, eventName, data, TRUE,
                              onRendererEvent(ActiveModule, eventName, data, Handling, bad))
    ELSE RendererEventHandled(themeName, eventName, data, FALSE, Handling)

\* ------------------------------------------------------------ specifications

\* What initialize can do when registerTheme(config) gets to call it.
InitializeOutcomes(config) ==
  IF ValidateThemeConfig(config) /\ ~ThemesHas(config.name)
    THEN Outcomes ELSE {"ok"}

\* The theme handler that throws while theme-changed is dispatched to the
\* theme named active: none (Null), or one the dispatch reaches.
ThemeChangedThrowers(active) ==
  {Null} \cup Reached(THEME_CHANGED, [currentTheme |-> active], active)

\* What the updateSettings hook of theme n can do: nothing when n is not
\* registered or its module has no such method.
HookOutcomes(themeName) ==
  LET name == IF themeName # Null THEN themeName ELSE activeTheme
  IN IF name # Null /\ ThemesHas(name)
          /\ "updateSettings" \in ModuleMethods(ThemesGet(name).mainModule)
       THEN Outcomes ELSE {"ok"}

\* The lifecycle steps that resume a suspended call.
Resume ==
  \/ \E i \in 1..Len(calls), o \in Outcomes : DeactivateSettled(i, o)
  \/ \E i \in 1..Len(calls) : ActivateInvoke(i)
  \/ \E i \in 1..Len(calls), o \in Outcomes :
       \E bad \in ThemeChangedThrowers(calls[i].name) : ActivateSettled(i, o, bad)

\* Registration and lifecycle calls, issued at any time: calls overlap.
Next ==
  \/ \E config \in Configs : \E o \in InitializeOutcomes(config) :
       RegisterTheme(config, o)
  \/ \E n \in CallNames : ActivateTheme(n)
  \/ DeactivateTheme
  \/ Resume

Spec == Init /\ [][Next]_vars

\* The same with every lifecycle call awaited before the next one is issued.
NextSeq ==
  \/ \E config \in Configs : \E o \in InitializeOutcomes(config) :
       RegisterTheme(config, o)
  \/ \E n \in CallNames : Quiescent /\ ActivateTheme(n)
  \/ Quiescent /\ DeactivateTheme
  \/ Resume

SpecSeq == Init /\ [][NextSeq]_vars

\* Awaited lifecycle calls with the services publishing in between.
NextEvents ==
  \/ NextSeq
  \/ \E e \in PublishedEvents : \E data \in Payloads(e) :
       \E bad \in {Null} \cup Reached(e, data, activeTheme) : Publish(e, data, bad)

SpecEvents == Init /\ [][NextEvents]_vars

\* Awaited lifecycle calls with settings updates in between.
NextSettings ==
  \/ NextSeq
  \/ \E n \in CallNames \cup {Null}, settings \in Patches :
       \E o \in HookOutcomes(n), bad \in ThemeChangedThrowers(activeTheme) :
         UpdateThemeSettings(n, settings, o, bad)
  \/ \E settings \in ThemeRecords, bad \in ThemeChangedThrowers(activeTheme) :
       SaveThemeSettings(settings, bad)

SpecSettings == Init /\ [][NextSettings]_vars

TypeOK ==
  /\ activeTheme \in ThemeNames \cup {Null}
  /\ Len(calls) <= MaxInFlight
  /\ \A i \in 1..Len(themes) : themes[i].name \in ThemeNames


\* -------------------------------------------------------------- properties

\* The main module registered under theme name n.
ModuleOf(n) == ThemesGet(n).mainModule

\* The modules whose activate() is pending or has resolved, with no
\* deactivate() since.
Live == {m \in ModuleIds : status[m] \in {"activating", "active"}}

\* The lifecycle calls in a trace that are calls of `method`.
CallsOf(trace, method) == {k \in 1..Len(trace) : trace[k].method = method}

\* An activateTheme call for a registered theme returned in the latest step.
ActivateReturnedNow == last.op = "activateTheme" /\ ThemesHas(last.name)

\* C1: with every lifecycle call awaited before the next is issued, no two
\* themes are ever active together, and an activateTheme(b) that returns true
\* after it was issued while a was active has called a's deactivate exactly
\* once, before b's activate, and leaves the active pointer on b alone.
C1_SwitchDeactivatesThenActivates ==
  /\ Cardinality(Live) <= 1
  /\ (ActivateReturnedNow /\ last.result /\ last.before # Null) =>
       /\ last.trace[1] = Invocation(ModuleOf(last.before), "deactivate", <<>>)
       /\ last.trace[2] = Invocation(ModuleOf(last.name), "activate", <<>>)
       /\ CallsOf(last.trace, "deactivate") = {1}
       /\ CallsOf(last.trace, "activate") = {2}
       /\ activeTheme = last.name
       /\ Live = {ModuleOf(last.name)}

C1_Witness ==
  /\ ActivateReturnedNow /\ last.result
  /\ last.before # Null /\ last.before # last.name
  /\ activeTheme = last.name

\* C2: activations never interleave: no two themes have had activate() called
\* with no deactivate() since, and once no call is suspended the only theme
\* left activated is the one the active pointer references.
C2_ActivationsNeverInterleave ==
  /\ Cardinality(Live) <= 1
  /\ Quiescent =>
       \A m \in Live : activeTheme # Null /\ m = ModuleOf(activeTheme)

\* C3: an activateTheme(b) issued while a was active whose activate() threw
\* reports failure and leaves the active pointer on a.
C3_FailedActivationKeepsPointer ==
  (/\ ActivateReturnedNow /\ last.before # Null
   /\ last.trace[Len(last.trace)].method = "activate"
   /\ ~last.result)
    => activeTheme = last.before

\* C4: deactivateTheme() with nothing active returns true and calls nothing;
\* with a theme active it leaves the pointer null, also when the theme's
\* deactivate() threw, which it reports by returning false.
C4_DeactivateAlwaysClears ==
  last.op = "deactivateTheme" =>
    /\ activeTheme = Null
    /\ last.before = Null => (last.result /\ last.trace = <<>>)


\* The handler methods a dispatch can call.
HandlerMethods ==
  {"onTasksLoaded", "onCurrentTask", "onTaskCompleted", "onTaskAdded",
   "onPomodoroTick", "onPomodoroCompleted", "onWorkStarted", "onBreakStarted",
   "onThemeSettingsChanged", "onEvent"}

\* The handler calls among a sequence of calls into themes.
HandlerCalls(entries) ==
  {k \in 1..Len(entries) : entries[k].method \in HandlerMethods}

\* C5: a publish calls handlers of the theme that is active when it is
\* published and of no other theme; a tasks-loaded publish calls the active
\* theme's tasks-loaded handler exactly once, with the published payload.
\* The theme-changed publish inside activateTheme reaches only the theme
\* that call has just made active.
C5_OnlyActiveThemeHandles ==
  /\ last.op = "publish" =>
       /\ \A k \in 1..Len(last.entries) :
            /\ last.before # Null
            /\ last.entries[k].mod = ModuleOf(last.before)
       /\ (/\ last.event = TASKS_LOADED
           /\ last.before # Null
           /\ "onTasksLoaded" \in ModuleMethods(ModuleOf(last.before)))
            => /\ CallsOf(last.entries, "onTasksLoaded") = {1}
               /\ last.entries[1].args = <<last.data>>
  /\ ActivateReturnedNow =>
       \A k \in HandlerCalls(last.trace) :
         /\ activeTheme = last.name
         /\ last.trace[k].mod = ModuleOf(last.name)

C5_Witness ==
  /\ last.op = "publish" /\ last.event = TASKS_LOADED
  /\ Len(themes) = 2 /\ last.before = themes[2].name
  /\ CallsOf(last.entries, "onTasksLoaded") = {1}

\* C6: when a subscriber throws during a publish, every subscriber of the
\* event has still been called and nothing reaches the publisher.
C6_SubscriberFailuresIsolated ==
  last.op = "publish" =>
    /\ ~last.threw
    /\ last.invoked = Subscribers(last.event)

\* C7: after updateThemeSettings(name, patch) on a registered theme,
\* getThemeSettings(name) is the theme's defaults overlaid with what was
\* persisted before, overlaid with the patch.
C7_SettingsPatchesAccumulate ==
  (last.op = "updateThemeSettings" /\ last.name # Null /\ ThemesHas(last.name)) =>
    GetThemeSettings(last.name) =
      Spread(Spread(ThemesGet(last.name).settings, last.previous), last.settings)

\* The registry entries named n.
Registered(registry, n) == {i \in 1..Len(registry) : registry[i].name = n}

\* C8: the registry never holds two descriptors of one name; registerTheme
\* with a name already registered returns false, leaves the registry as it
\* was and does not call initialize on the descriptor it rejects.
C8_DuplicateNameRejected ==
  /\ \A i \in 1..Len(themes) : Registered(themes, themes[i].name) = {i}
  /\ (last.op = "registerTheme" /\ Registered(last.registry, last.config.name) # {}) =>
       /\ ~last.result
       /\ themes = last.registry
       /\ last.entries = <<>>

C8_Witness ==
  /\ last.op = "registerTheme"
  /\ Registered(last.registry, last.config.name) # {}
  /\ last.config.mainModule \in ModuleIds
  /\ last.config.mainModule # ModuleOf(last.config.name)

\* A descriptor without a name, a display name, or an implementation object
\* that has initialize, activate and deactivate.
LacksRequired(config) ==
  \/ config.name = ""
  \/ config.displayName = ""
  \/ config.mainModule \notin ModuleIds
  \/ ~({"initialize", "activate", "deactivate"} \subseteq ModuleMethods(config.mainModule))

\* C9: registerTheme with a descriptor lacking a required part, or whose
\* initialize throws, returns false and leaves the registry and the active
\* pointer as they were.
C9_InvalidDescriptorRejected ==
  (last.op = "registerTheme" /\ (LacksRequired(last.config) \/ last.threw)) =>
    /\ ~last.result
    /\ themes = last.registry
    /\ activeTheme = last.before

C9_Witness ==
  /\ last.op = "registerTheme"
  /\ last.config.mainModule = "mBroken"
  /\ activeTheme # Null

\* C10: activateTheme with a name that is not registered returns false,
\* calls no theme (the active one is not deactivated), sends no notice and
\* leaves the active pointer and the stored theme name as they were.
C10_UnknownThemeChangesNothing ==
  (last.op = "activateTheme" /\ ~ThemesHas(last.name)) =>
    /\ ~last.result
    /\ last.trace = <<>>
    /\ last.sent = <<>>
    /\ activeTheme = last.before
    /\ store.currentTheme = last.saved

C10_Witness ==
  /\ last.op = "activateTheme" /\ ~ThemesHas(last.name)
  /\ activeTheme # Null
  /\ store.currentTheme = activeTheme
  /\ globalWindow

\* C20: an activateTheme(n) that returns true leaves n as the stored
\* current-theme name, and one that returns false leaves the stored name as
\* it was when the call was made, so that the name loadSavedTheme reads is
\* the one of the latest activation that succeeded.
C20_PersistedNameFollowsSuccess ==
  last.op = "activateTheme" =>
    IF last.result
      THEN store.currentTheme = last.name
      ELSE store.currentTheme = last.saved


\* --------------------------------------------------------- the timer's runs

\* The durations setWorkTime / setBreakTime are called with: the two
\* smallest valid ones and one beyond each end of the valid range.
MinuteInputs == {MinMinutes - 1, MinMinutes, MinMinutes + 1, MaxMinutes + 1}

\* The 'pomodoro' entries the store holds when the application starts.
StoredDurations ==
  {[workTime |-> 1, breakTime |-> 1], [workTime |-> 2, breakTime |-> 1]}

\* The theme the timer's events are forwarded to once it is active.
TimerTheme ==
  CHOOSE c \in Configs : c.name = "default" /\ c.mainModule = "mDefault"

\* The theme handler that throws during a timer call: none, or one of the
\* active theme's handlers of timer events.
TimerThrowers ==
  IF activeTheme = Null
    THEN {Null}
    ELSE {Null} \cup
         ({"onPomodoroTick", "onPomodoroCompleted", "onWorkStarted", "onBreakStarted"}
            \cap ModuleMethods(ActiveModule))

\* The application started over a store that holds timer durations.
InitTimer ==
  /\ ThemeManagerConstructed
  /\ ~globalWindow
  /\ \E d \in StoredDurations :
       ServicesConstructed([pomodoro |-> d, todoist |-> EmptyMap])

\* The timer driven by its callers and its interval, with one theme that is
\* registered and activated at some point.
NextTimer ==
  \/ RegisterTheme(TimerTheme, "ok")
  \/ Quiescent /\ activeTheme = Null /\ ActivateTheme(TimerTheme.name)
  \/ \E i \in 1..Len(calls) : ActivateSettled(i, "ok", Null)
  \/ \E method \in PomodoroMethods \ {"setWorkTime", "setBreakTime"} :
       \E bad \in TimerThrowers : PomodoroCall(method, 0, bad)
  \/ \E method \in {"setWorkTime", "setBreakTime"}, minutes \in MinuteInputs :
       PomodoroCall(method, minutes, Null)
  \/ \E bad \in TimerThrowers : IntervalFires(bad)
  \/ LateTick

SpecTimer == InitTimer /\ [][NextTimer]_vars

\* The arguments the project methods of the PomodoroService are called with.
ProjectArguments(method) ==
  CASE method = "setProjectRelationship" -> {<<"p1", "p2">>}
    [] method = "setWorkProjectId"       -> {<<"p1">>}
    [] method = "setBreakProjectId"      -> {<<"p2">>}
    [] method = "rememberTaskForProject" ->
         {<<"p1", 0>>, <<"p1", Omitted>>, <<Null, 0>>}
    [] OTHER                             -> {<<>>}

\* The timer's settings written by everything that writes them: the
\* duration setters, the project methods and the settings window's save,
\* with the timer running in between.  (loadSettings has no caller but the
\* constructor; it is called here as the public method it is.)
NextTimerSettings ==
  \/ \E method \in {"start", "pause"} : PomodoroCall(method, 0, Null)
  \/ \E method \in {"setWorkTime", "setBreakTime"} :
       \E minutes \in {MinMinutes - 1, MinMinutes, MaxMinutes + 1} :
         PomodoroCall(method, minutes, Null)
  \/ \E method \in ProjectMethods : \E arguments \in ProjectArguments(method) :
       PomodoroCall(method, arguments, Null)
  \/ \E settings \in {d \in StoredDurations : d.workTime = MinMinutes} :
       SaveAppSettings(settings)
  \/ IntervalFires(Null)

SpecTimerSettings == InitTimer /\ [][NextTimerSettings]_vars


\* The latest step was a call of PomodoroService method `method`.
PomodoroReturned(method) == last.op = "pomodoro" /\ last.method = method

\* The positions of event e in a sequence of published events.
EventsAt(events, e) == {k \in 1..Len(events) : events[k].event = e}

\* C12: after reset(), whatever the timer was doing, timeRemaining is
\* workTime * 60, isActive is false and isBreak is false.
C12_ResetRestoresWorkPhase ==
  PomodoroReturned("reset") =>
    /\ pomodoro.state.timeRemaining = pomodoro.state.workTime * SecondsPerMinute
    /\ ~pomodoro.state.isActive
    /\ ~pomodoro.state.isBreak

C12_Witness ==
  /\ PomodoroReturned("reset")
  /\ last.prev.isActive /\ last.prev.isBreak
  /\ last.prev.timeRemaining < last.prev.breakTime * SecondsPerMinute
  /\ ~pomodoro.state.isBreak

\* C13: in a run of ticks that follows reset() and start() with no pause,
\* no tick before tick number workTime * 60 publishes timer-completed, and
\* that tick publishes exactly one, carrying wasBreak = false and
\* nextMode = 'break', followed by break-started.
C13_WorkPhaseCompletesOnce ==
  (/\ PomodoroReturned("tick")
   /\ last.run >= 1
   /\ last.run <= last.prev.workTime * SecondsPerMinute) =>
    LET done == EventsAt(last.events, TIMER_COMPLETED)
    IN IF last.run < last.prev.workTime * SecondsPerMinute
         THEN done = {}
         ELSE /\ Cardinality(done) = 1
              /\ \A k \in done :
                   /\ last.events[k].data = [wasBreak |-> FALSE, nextMode |-> "break"]
                   /\ k < Len(last.events)
                   /\ last.events[k + 1].event = BREAK_STARTED

\* C14: a work-started / break-started event carries the mode entered and
\* timeRemaining equal to that mode's duration in seconds, by the durations
\* the service holds when it is published; published after timer-completed
\* it is the event of the mode other than the completed one.
C14_PhaseStartCarriesPhaseLength ==
  last.op = "pomodoro" =>
    \A k \in EventsAt(last.events, WORK_STARTED) \cup EventsAt(last.events, BREAK_STARTED) :
      LET d == last.events[k].data
      IN /\ d.isBreak = (last.events[k].event = BREAK_STARTED)
         /\ d.timeRemaining = IF d.isBreak
                                THEN pomodoro.state.breakTime * SecondsPerMinute
                                ELSE pomodoro.state.workTime * SecondsPerMinute
         /\ (k > 1 /\ last.events[k - 1].event = TIMER_COMPLETED)
              => d.isBreak = ~last.events[k - 1].data.wasBreak

C14_Witness ==
  /\ PomodoroReturned("tick")
  /\ EventsAt(last.events, TIMER_COMPLETED) = {2}
  /\ EventsAt(last.events, BREAK_STARTED) = {3}
  /\ pomodoro.state.breakTime # pomodoro.state.workTime

\* C15: once pause() or reset() has returned and until start(), toggle() or
\* startNextPhase() is called, no interval is left to fire, and a tick
\* callback that runs all the same publishes nothing and leaves
\* timeRemaining as it is.
C15_StoppedTimerDoesNotTick ==
  /\ watch.stopped => ~pomodoro.timerInterval
  /\ (PomodoroReturned("tick") /\ last.stopped) =>
       /\ last.events = <<>>
       /\ pomodoro.state.timeRemaining = last.prev.timeRemaining

C15_Witness ==
  /\ PomodoroReturned("tick") /\ last.stopped
  /\ last.prev.timeRemaining < PhaseSeconds(last.prev)
  /\ last.prev.timeRemaining > 0

\* C16: setWorkTime(m) and setBreakTime(m) with m below 1 or above 60 leave
\* workTime, breakTime and timeRemaining as they were, store nothing and
\* publish nothing.
C16_OutOfRangeDurationRejected ==
  (/\ last.op = "pomodoro"
   /\ last.method \in {"setWorkTime", "setBreakTime"}
   /\ (last.minutes < MinMinutes \/ last.minutes > MaxMinutes)) =>
    /\ pomodoro.state = last.prev
    /\ serviceStore.pomodoro = last.prevSaved
    /\ last.events = <<>>

C16_Witness ==
  /\ PomodoroReturned("setWorkTime")
  /\ last.minutes > MaxMinutes
  /\ ~last.prev.isActive /\ ~last.prev.isBreak

\* C17: timeRemaining is never below 0.
C17_TimeRemainingNeverNegative == pomodoro.state.timeRemaining >= 0

\* ------------------------------------------------------ the task service's runs

TaskIds == {"t1", "t2", "t3"}

\* The task lists a fetchTasks response carries: any of the tasks, in the
\* order the server lists them.
TaskLists ==
  {<<>>, <<"t1">>, <<"t2">>, <<"t3">>, <<"t1", "t2">>, <<"t1", "t3">>,
   <<"t2", "t3">>, <<"t1", "t2", "t3">>}

\* The indexes setCurrentTaskIndex is called with.
IndexInputs == -1..Cardinality(TaskIds)

\* The 'todoist' entries the store holds when the application starts: none,
\* or a key with the cursor an earlier session saved.
StoredTodoist ==
  {EmptyMap} \cup
  {[apiKey |-> TRUE, currentTaskIndex |-> i] : i \in 0..(Cardinality(TaskIds) - 1)}

FetchOutcomes == {"ok", "malformed", "status", "network"}

\* The theme handler that throws during a task service call or callback:
\* none, or one of the active theme's handlers of task events.
TaskThrowers ==
  IF activeTheme = Null
    THEN {Null}
    ELSE {Null} \cup
         ({"onTasksLoaded", "onCurrentTask", "onTaskCompleted"}
            \cap ModuleMethods(ActiveModule))

\* The application started over a store that may hold a key and a cursor.
InitTasks ==
  /\ ThemeManagerConstructed
  /\ ~globalWindow
  /\ \E t \in StoredTodoist :
       ServicesConstructed([pomodoro |-> EmptyMap, todoist |-> t])

\* The task service driven by its callers and by the responses to its
\* requests, with one theme that is registered and activated at some point.
NextTasks ==
  \/ RegisterTheme(TimerTheme, "ok")
  \/ Quiescent /\ activeTheme = Null /\ ActivateTheme(TimerTheme.name)
  \/ \E i \in 1..Len(calls) : ActivateSettled(i, "ok", Null)
  \/ \E method \in {"nextTask", "clearApiKey"}, bad \in TaskThrowers :
       TodoistCall(method, 0, bad)
  \/ \E index \in IndexInputs, bad \in TaskThrowers :
       TodoistCall("setCurrentTaskIndex", index, bad)
  \/ FetchTasks
  \/ \E taskId \in TaskIds \cup {NoTaskId} : CompleteTask(taskId)
  \/ \E i \in 1..Len(requests), outcome \in FetchOutcomes, bad \in TaskThrowers :
       \E body \in IF requests[i].kind = "tasks" /\ outcome = "ok"
                     THEN TaskLists ELSE {<<>>} :
         Response(i, outcome, body, bad)

SpecTasks == InitTasks /\ [][NextTasks]_vars

\* The latest step was a call of (or a response to) TodoistService `method`.
TodoistReturned(method) == last.op = "todoist" /\ last.method = method

\* C18: whenever the task list is not empty the cursor is an index into it.
C18_CursorWithinTaskList ==
  todoist.tasks # <<>> =>
    /\ 0 <= todoist.currentTaskIndex
    /\ todoist.currentTaskIndex < Len(todoist.tasks)

C18_Witness ==
  /\ TodoistReturned("completeTask") /\ last.outcome = "ok"
  /\ last.prev.currentTaskIndex = Len(last.prev.tasks) - 1
  /\ Len(todoist.tasks) = Len(last.prev.tasks) - 1
  /\ todoist.tasks # <<>>
  /\ todoist.currentTaskIndex = 0

\* C19: a fetchTasks response that is a failure (another status than 200, a
\* body that does not parse, a request error) publishes exactly one
\* api-error and then a tasks-loaded with an empty list and no current task,
\* and leaves the task list empty; fetchTasks itself throws nothing at its
\* caller.  A completeTask response that is a failure publishes api-error
\* and nothing else and leaves the task list and the cursor as they were.
C19_ApiFailuresReported ==
  /\ (TodoistReturned("fetchTasks") /\ last.outcome \in {"malformed", "status", "network"}) =>
       /\ EventsAt(last.events, API_ERROR) = {1}
       /\ EventsAt(last.events, TASKS_LOADED) = {2}
       /\ last.events[2].data = EmptyTasksLoaded
       /\ todoist.tasks = <<>>
  /\ (TodoistReturned("fetchTasks") /\ last.outcome = "returned") => ~last.threw
  /\ (TodoistReturned("completeTask") /\ last.outcome \in {"status", "network"}) =>
       /\ EventsAt(last.events, API_ERROR) = {1}
       /\ Len(last.events) = 1
       /\ todoist.tasks = last.prev.tasks
       /\ todoist.currentTaskIndex = last.prev.currentTaskIndex

C19_Witness ==
  /\ TodoistReturned("fetchTasks") /\ last.outcome = "status"
  /\ last.prev.tasks # <<>>
  /\ activeTheme # Null
  /\ todoist.tasks = <<>>

\* ------------------------------------------------------- renderer event claims

\* The theme handler that throws while the renderer event eventName is
\* handled: none, or one that the service called for the event reaches.
RendererEventThrowers(eventName) ==
  CASE eventName = "pomodoro:start-next-phase" -> TimerThrowers
    [] eventName = "task:next" -> TaskThrowers
    [] OTHER -> {Null}

\* Awaited lifecycle calls with events arriving from the renderer in between.
NextRenderer ==
  \/ NextSeq
  \/ \E themeName \in CallNames \cup {Null}, eventName \in RendererEventNames :
       \E bad \in RendererEventThrowers(eventName) :
         HandleRendererEvent(themeName, eventName, NoSetting, bad)

SpecRenderer == Init /\ [][NextRenderer]_vars

\* C11: a renderer event reaches a theme only when its themeName is the name
\* of the active theme: then the active theme's onRendererEvent gets the
\* event name and data; when the name differs or nothing is active, no
\* handler of any theme is called.
C11_RendererEventOnlyToActiveTheme ==
  last.op = "rendererEvent" =>
    /\ (last.before = Null \/ last.themeName # last.before) => last.entries = <<>>
    /\ \A k \in 1..Len(last.entries) :
         last.entries[k].mod = ModuleOf(last.before)
    /\ (/\ last.before # Null
        /\ last.themeName = last.before
        /\ "onRendererEvent" \in ModuleMethods(ModuleOf(last.before)))
         => last.entries[1] = Invocation(ModuleOf(last.before), "onRendererEvent",
                                         <<last.eventName, last.data>>)

C11_Witness ==
  /\ last.op = "rendererEvent"
  /\ Len(themes) = 2
  /\ last.themeName = last.before
  /\ last.entries # <<>>
  /\ last.entries[1].method = "onRendererEvent"


\* -------------------------------------------------------------- startup's runs

\* The names the themes directory can register.
StartupNames == {"default", "farming", "retro"}

\* The theme name the store holds when the application starts: none, one
\* of the themes, or one whose file is gone.
StoredNames == StartupNames \cup {Null, "ghost"}

\* The most files the themes directory is listed with.
MaxFiles == 3

\* The listings of a directory that holds files of F: no file name twice.
ListingsOf(F) ==
  UNION { { fs \in [1..n -> F] :
              \A i, j \in 1..n : i # j => fs[i].file # fs[j].file }
          : n \in 0..MaxFiles }

\* The themes directories of the startup runs: theme files that load.
StartupDirectories ==
  {Listing(fs) : fs \in ListingsOf({DefaultFile, FarmingFile, RetroFile})}

\* The application started: nothing registered yet, a store that may hold
\* the theme name of an earlier session.
InitStartup ==
  /\ themes = <<>>
  /\ activeTheme = Null
  /\ \E n \in StoredNames : store = [currentTheme |-> n, themeSettings |-> EmptyMap]
  /\ globalWindow = FALSE
  /\ status = [m \in ModuleIds |-> "idle"]
  /\ calls = <<>>
  /\ last = NoOp
  /\ ServicesConstructed(NoSettings)

\* Discovery, the load of the saved theme and awaited lifecycle calls.
NextStartup ==
  \/ \E dir \in StartupDirectories : DiscoverThemes(dir)
  \/ Quiescent /\ LoadSavedTheme
  \/ \E n \in StartupNames : Quiescent /\ ActivateTheme(n)
  \/ Resume

SpecStartup == InitStartup /\ [][NextStartup]_vars

\* C21: loadSavedTheme() calls activateTheme with the stored theme name
\* when a theme of that name is registered, else with 'default' when that
\* is registered, else with the first registered theme; with no theme
\* registered it returns false, throws nothing, calls nothing and the
\* active pointer is null.
C21_LoadSavedThemeChoice ==
  last.op = "loadSavedTheme" =>
    IF themes = <<>>
      THEN /\ last.returned /\ ~last.result /\ ~last.threw
           /\ activeTheme = Null
           /\ calls = <<>>
      ELSE /\ ~last.returned
           /\ calls # <<>>
           /\ calls[Len(calls)].kind = "activate"
           /\ calls[Len(calls)].name =
                IF \E i \in 1..Len(themes) : themes[i].name = last.stored
                  THEN last.stored
                  ELSE IF \E i \in 1..Len(themes) : themes[i].name = "default"
                    THEN "default"
                    ELSE themes[1].name

C21_Witness ==
  /\ last.op = "loadSavedTheme"
  /\ last.stored = "ghost"
  /\ Len(themes) = 2
  /\ \A i \in 1..Len(themes) : themes[i].name # "default"
  /\ calls # <<>> /\ calls[Len(calls)].name = themes[1].name


\* ------------------------------------------------------------ discovery's runs

\* The files a themes directory may hold: the three themes, one of them in
\* its broken forms, and two files that are not themes.
DirectoryFiles ==
  {DefaultFile, FarmingFile, RetroFile, BaseFile, TemplateFile} \cup BrokenFiles

Directories ==
  {MissingDir, UnreadableDir} \cup {Listing(fs) : fs \in ListingsOf(DirectoryFiles)}

\* discoverThemes() called again and again, over any directory.
NextDiscover == \E dir \in Directories : DiscoverThemes(dir)

SpecDiscover == InitStartup /\ [][NextDiscover]_vars

\* File f of a listing is a theme file that loads, whose config has a name,
\* a display name and a module with the three lifecycle methods, and whose
\* initialize returns.
LoadsAsTheme(f) ==
  /\ f.file \in {"default-theme.js", "farming-theme.js", "retro-theme.js"}
  /\ f.exports # "throws"
  /\ f.init = "ok"
  /\ IF f.exports = "class"
       THEN {"initialize", "activate", "deactivate"} \subseteq ModuleMethods(f.mod)
       ELSE /\ f.config.name # "" /\ f.config.displayName # ""
            /\ {"initialize", "activate", "deactivate"}
                 \subseteq ModuleMethods(f.config.mainModule)

\* The theme names of a sequence of registry entries.
NamesOf(reg) == {reg[i].name : i \in 1..Len(reg)}

\* C22: discoverThemes() throws nothing at its caller; it keeps the themes
\* that were registered, in their order, and adds exactly the themes of the
\* files that load and validate and are not registered yet, whatever the
\* other files of the directory do; run over a directory whose themes are
\* all registered already it leaves the registry as it was.
C22_DiscoverSkipsBrokenThemes ==
  last.op = "discoverThemes" =>
    LET loaded == {ThemeNameOf(last.dir.files[i].file) :
                     i \in {k \in 1..Len(last.dir.files) :
                              LoadsAsTheme(last.dir.files[k])}}
    IN /\ ~last.threw
       /\ Len(themes) >= Len(last.registry)
       /\ SubSeq(themes, 1, Len(last.registry)) = last.registry
       /\ NamesOf(themes) = NamesOf(last.registry) \cup loaded
       /\ Len(themes) = Cardinality(NamesOf(themes))
       /\ loaded \subseteq NamesOf(last.registry) => themes = last.registry

C22_Witness ==
  /\ last.op = "discoverThemes"
  /\ last.registry = <<>>
  /\ Len(last.dir.files) = 3
  /\ last.dir.files[2].exports = "throws"
  /\ Len(themes) = 2

\* discoverThemes() run a second time over the directory it has just
\* registered two themes from.
C22_WitnessAgain ==
  /\ last.op = "discoverThemes"
  /\ Len(last.registry) = 2
  /\ Len(last.dir.files) = 3
  /\ \E i \in 1..3 : ~LoadsAsTheme(last.dir.files[i])
  /\ \A i \in 1..3 : LoadsAsTheme(last.dir.files[i]) =>
       ThemeNameOf(last.dir.files[i].file) \in NamesOf(last.registry)
  /\ themes = last.registry


\* ------------------------------------------------------- event forwarding claims

\* C23: a publish of an event of the services' catalogs while a theme is
\* active whose module has the catch-all handler calls that theme (its
\* handler for the event or the catch-all), and the ThemeManager is one
\* listener of the event.
C23_EveryCatalogEventDispatched ==
  (/\ last.op = "publish"
   /\ last.before # Null
   /\ "onEvent" \in ModuleMethods(ModuleOf(last.before)))
    => /\ last.entries # <<>>
       /\ Cardinality({k \in 1..Len(Subscribers(last.event)) :
                         Subscribers(last.event)[k] = "themeManager"}) = 1

\* What the claim has one forward do on module mod: the mapped method with
\* the payload, else onEvent with the name and the payload, else nothing.
ClaimedForward(mod, eventName, data) ==
  IF methodMap(eventName) \in ModuleMethods(mod)
    THEN <<[mod |-> mod, method |-> methodMap(eventName), args |-> <<data>>]>>
    ELSE IF "onEvent" \in ModuleMethods(mod)
      THEN <<[mod |-> mod, method |-> "onEvent", args |-> <<eventName, data>>]>>
      ELSE <<>>

\* C24: for each event forwarded to the active theme the mapped method is
\* called with the payload when the theme has it (and the catch-all is
\* not), else onEvent with the event name and the payload when the theme
\* has that, else nothing is called and nothing is thrown.  A tasks-loaded
\* publish is forwarded as tasks-loaded and, when it carries a current task
\* and the first handler returned, as current-task.
C24_SpecificHandlerElseCatchAll ==
  (last.op = "publish" /\ last.event \in ForwardedEvents /\ last.before # Null) =>
    LET mod == ModuleOf(last.before)
        first == ClaimedForward(mod, ForwardedAs(last.event), last.data)
        second == IF last.event = TASKS_LOADED /\ "currentTask" \in DOMAIN last.data
                    THEN ClaimedForward(mod, "todoist:current-task",
                                        last.data.currentTask)
                    ELSE <<>>
    IN /\ (first \o second = <<>>) => (last.entries = <<>> /\ ~last.threw)
       /\ ~last.threw => last.entries = first \o second
       /\ last.threw => (last.entries = first \/ last.entries = first \o second)

C24_Witness ==
  /\ last.op = "publish" /\ last.event = TIMER_TICK /\ last.before # Null
  /\ "onEvent" \in ModuleMethods(ModuleOf(last.before))
  /\ "onPomodoroTick" \notin ModuleMethods(ModuleOf(last.before))
  /\ Len(last.entries) = 1 /\ last.entries[1].method = "onEvent"
  /\ last.entries[1].args = <<"pomodoro:timer-tick", last.data>>

\* A theme with both the mapped method and the catch-all gets the mapped
\* method only.
C24_WitnessSpecific ==
  /\ last.op = "publish" /\ last.event = TASKS_LOADED /\ last.before # Null
  /\ {"onEvent", "onTasksLoaded"} \subseteq ModuleMethods(ModuleOf(last.before))
  /\ last.entries[1].method = "onTasksLoaded"

\* ------------------------------------------------ the default theme's runs

\* The timer running down with the default theme activated and deactivated
\* by the coordinator meanwhile, and the theme's timeouts firing.
NextAutoStart ==
  \/ RegisterTheme(TimerTheme, "ok")
  \/ Quiescent /\ ActivateTheme(TimerTheme.name)
  \/ Quiescent /\ DeactivateTheme
  \/ \E i \in 1..Len(calls) : DeactivateSettled(i, "ok")
  \/ \E i \in 1..Len(calls) : ActivateInvoke(i)
  \/ \E i \in 1..Len(calls) : ActivateSettled(i, "ok", Null)
  \/ \E method \in {"start", "pause"} : PomodoroCall(method, 0, Null)
  \/ \E bad \in TimerThrowers : IntervalFires(bad)
  \/ AutoStartFires(Null)
  \/ \E themeName \in {"default", Null}, auto \in BOOLEAN :
       HandleRendererEvent(themeName, "settings:update",
                           [autoStartNextPhase |-> auto], Null)

SpecAutoStart == InitTimer /\ [][NextAutoStart]_vars

\* C25: once the coordinator has deactivated a theme, no timeout the theme
\* set fires an action: the DefaultTheme's delayed auto-start calls
\* startNextPhase only while the DefaultTheme is the active theme.
C25_NoTimeoutAfterDeactivate ==
  (last.op = "timeout" /\ "startNextPhase" \in {last.called[k] : k \in 1..Len(last.called)})
    => last.active = last.theme

\* --------------------------------------------------- the game theme's runs

\* How the activate() that call i of the renderer-side coordinator makes can
\* end: a game theme's in each of the ways, the plain theme's resolved.
ActivateOutcomesOf(i) ==
  IF i \in 1..Len(rendererThemes.calls) /\ rendererThemes.calls[i].name = "farming"
    THEN ActivateOutcomes ELSE {"ok"}

\* The renderer-side coordinator switching between a game theme and the
\* plain theme, its calls overlapping, with the game theme's frames
\* arriving in between and its styles unloaded at any time.
NextGame ==
  \/ \E themeName \in RendererThemeNames : RegisterRendererTheme(themeName)
  \/ \E themeName \in RendererThemeNames \cup {"ghost"} :
       RendererActivateTheme(themeName)
  \/ \E i \in 1..MaxRendererCalls : RendererDeactivated(i)
  \/ \E i \in 1..MaxRendererCalls : RendererAssetsLoaded(i)
  \/ \E i \in 1..MaxRendererCalls :
       \E outcome \in ActivateOutcomesOf(i) : RendererInitialized(i, outcome)
  \/ \E i \in 1..MaxRendererCalls : RendererActivated(i, Null)
  \/ RendererUnloadStyles
  \/ \E k \in 1..MaxLoops : FrameArrives(k)

SpecGame == Init /\ [][NextGame]_vars

\* C26: over activations, deactivations and re-activations of a game theme,
\* an activation that fails after the loop was started included, at most
\* one frame loop is scheduled, and once deactivate() has completed no frame
\* callback of the theme runs.
C26_AtMostOneFrameLoop ==
  /\ Cardinality(gameTheme.loops) <= 1
  /\ last.op = "frame" => last.lifecycle # "deactivated"

\* C28: initialize() called again sets nothing up a second time: however
\* often the coordinator has activated the game theme, the document holds
\* at most one style element of the theme.
C28_InitializeSetsUpOnce ==
  gameTheme.styles <= 1

\* ------------------------------------------------ the display surface's runs

\* The bridge setting up the theme container and initializing the ThemeAPI
\* once the document is loaded, theme-changed notices arriving at the
\* display surface and the renderer modules they ask for loading, in any
\* order.
NextSurface ==
  \/ DOMContentLoaded
  \/ \E answer \in SurfaceThemes \cup {Null} : ActiveThemeAnswered(answer)
  \/ \E outcome \in Outcomes : ThemeSettingsAnswered(outcome)
  \/ \E theme \in SurfaceThemes, settings \in {SettingsObject, Undefined} :
       ThemeChangedArrives(theme, settings)
  \/ \E themeName \in SurfaceThemes, settings \in {SettingsObject, Undefined} :
       ThemeSettingsChangedArrives(themeName, settings)
  \/ \E i \in 1..MaxLoads, outcome \in Outcomes : RendererModuleLoaded(i, outcome)
  \/ \E renderer \in SurfaceThemes \cup {Null} : RegisterRenderer(renderer)
  \/ RendererCleanup
  \/ GetNextTask(Null)

SpecSurface == Init /\ [][NextSurface]_vars

\* The themes of which the surface holds something: content in the theme
\* container or listeners on the window.
ThemesPresent ==
  {t \in SurfaceThemes : surface.attached[t] > 0}
    \cup ({surface.container} \ {Null})

\* C27: a theme-changed notice has the surface discard all that the
\* previous theme's renderer created (container content, listeners) before
\* the new renderer paints: never are two themes' content or listeners
\* present together, also with two notices before the first module loaded.
C27_PreviousRendererDiscarded ==
  Cardinality(ThemesPresent) <= 1

\* ------------------------------------------------------ the run-time bus's runs

\* Components subscribing, unsubscribing and publishing in any order.
NextBus ==
  \/ \E name \in BusNames, h \in BusHandlers \ {"h4"} : BusSubscribe(name, h)
  \/ \E name \in BusNames, h \in {"h1", "h2"} : BusSubscribeOnce(name, h)
  \/ \E name \in BusNames, h \in BusHandlers : BusUnsubscribe(name, h)
  \/ \E name \in BusNames : BusPublish(name)

SpecBus == Init /\ [][NextBus]_vars

\* C29: publish(name, payload) calls every handler subscribed to name when
\* it is called, before it returns, in the order they subscribed, and no
\* handler subscribed to another name only.
C29_PublishReachesAllInOrder ==
  last.op = "busPublish" => last.invoked = last.before

\* C30: a handler subscribed to a name from inside a handler of a publish
\* of that name in flight is not called by that publish, and is called by
\* the next publish of the name (when still subscribed then).
C30_LateSubscriberWaitsForNextPublish ==
  last.op = "busPublish" =>
    /\ \A h \in last.added : ~InSeq(h, last.invoked)
    /\ \A h \in last.awaited : InSeq(h, last.before) => InSeq(h, last.invoked)

\* ------------------------------------------------- task cursor claims

\* C31: nextTask() on a list of n > 0 tasks moves the cursor to
\* (cursor + 1) mod n, returns the task at the new cursor to its caller and
\* publishes one tasks-loaded that carries that task; on an empty list it
\* changes nothing and publishes nothing.
C31_NextTaskCycles ==
  TodoistReturned("nextTask") =>
    IF last.prev.tasks = <<>>
      THEN /\ todoist = last.prev
           /\ last.events = <<>>
           /\ ~last.threw
      ELSE /\ todoist.tasks = last.prev.tasks
           /\ todoist.currentTaskIndex =
                (last.prev.currentTaskIndex + 1) % Len(last.prev.tasks)
           /\ ~last.threw
           /\ Cardinality(EventsAt(last.events, TASKS_LOADED)) = 1
           /\ \A k \in EventsAt(last.events, TASKS_LOADED) :
                /\ "currentTask" \in DOMAIN last.events[k].data
                /\ last.events[k].data.currentTask.id =
                     todoist.tasks[todoist.currentTaskIndex + 1]

\* ------------------------------------------------- timer restart claims

\* C32: when a phase has completed by ticking down to zero the timer goes
\* on by itself: isActive is still true and the interval that calls _tick()
\* is set, so that ticks are published in the new phase and it completes in
\* its turn.
C32_TimerRestartsAfterCompletion ==
  (/\ PomodoroReturned("tick")
   /\ EventsAt(last.events, TIMER_COMPLETED) # {}
   /\ ~last.threw)
    => /\ pomodoro.state.isActive
       /\ pomodoro.timerInterval

\* C35: isActive is true exactly when the interval that calls _tick() is
\* set (timerInterval is a single handle, so there is at most one).
C35_ActiveIffInterval ==
  pomodoro.state.isActive <=> pomodoro.timerInterval


\* ------------------------------------------------- theme switch request claims

\* What the 'set-active-theme' handler of the main process replies on
\* 'theme-activated': "Theme not found" for an unregistered name, otherwise
\* success once the awaited activateTheme has returned, whatever it returned
\* (activateTheme catches its exceptions itself, so the handler's catch block
\* is never entered).
setActiveThemeReply(has, returned) ==
  IF ~has THEN [success |-> FALSE, error |-> "Theme not found"]
  ELSE [success |-> TRUE, error |-> Null]

\* The reply to the request whose activateTheme call has just returned: the
\* call made a call into a theme exactly when the name was registered.
ThemeActivatedReply == setActiveThemeReply(last.trace # <<>>, last.result)

\* C33: the reply to a set-active-theme request reports success exactly when
\* the requested theme is the active theme once the request is handled, and
\* reports failure whenever activateTheme returned false.
C33_ReplyReportsActivation ==
  last.op = "activateTheme" =>
    /\ ThemeActivatedReply.success <=> activeTheme = last.name
    /\ ~last.result => ~ThemeActivatedReply.success


\* ------------------------------------------------- next phase claims

\* The latest step was the tick that completed a phase, all handlers
\* returning; CompletedMode is the nextMode its timer-completed event carried.
PhaseCompleted ==
  /\ PomodoroReturned("tick")
  /\ EventsAt(last.events, TIMER_COMPLETED) # {}
  /\ ~last.threw

CompletedMode ==
  last.events[CHOOSE k \in EventsAt(last.events, TIMER_COMPLETED) : TRUE].data.nextMode

\* C34: a single start-next-phase request that follows a timer-completed
\* event leaves the timer in the mode the event named as nextMode, with the
\* full duration of that mode remaining (break with breakTime * 60 after a
\* work phase, work with workTime * 60 after a break).
C34_OnePhaseChangePerCompletion ==
  [][(/\ PhaseCompleted
      /\ last'.op = "pomodoro" /\ last'.method = "startNextPhase" /\ ~last'.threw)
       => /\ pomodoro'.state.isBreak = (CompletedMode = "break")
          /\ pomodoro'.state.timeRemaining =
               SecondsPerMinute * (IF CompletedMode = "break"
                                     THEN pomodoro'.state.breakTime
                                     ELSE pomodoro'.state.workTime)]_vars


\* ------------------------------------------------- theme task claims

\* The current task the TodoistService reports: none for an empty list.
ServiceCurrentTask == IF todoist.tasks = <<>> THEN NoTask ELSE getCurrentTask(todoist)

\* C36: once a call that published tasks-loaded has returned with the
\* default theme active, the task the theme has recorded as current is the
\* one getCurrentTask() returns; with the list empty the theme records none.
C36_ThemeTaskFollowsService ==
  (/\ last.op = "todoist"
   /\ EventsAt(last.events, TASKS_LOADED) # {}
   /\ ~last.threw
   /\ activeTheme = "default")
    => defaultTheme.currentTask = ServiceCurrentTask


\* ------------------------------------------------- theme activation's runs

\* The application started with its window created, over a store that may
\* hold a key and a cursor.
InitThemeTasks ==
  /\ ThemeManagerConstructed
  /\ globalWindow
  /\ \E t \in StoredTodoist :
       ServicesConstructed([pomodoro |-> EmptyMap, todoist |-> t])

\* The default theme activated, deactivated and activated again while tasks
\* are fetched: the bridge sets up the theme container and initializes the
\* ThemeAPI, which the main process answers with the active theme; the
\* surface receives the 'theme:changed' notice of an activation that has
\* just returned, loads the renderer module and initializes it, and the main
\* process handles what initialize sent.
NextThemeTasks ==
  \/ DOMContentLoaded
  \/ ActiveThemeAnswered(activeTheme)
  \/ ThemeSettingsAnswered("ok")
  \/ RegisterTheme(TimerTheme, "ok")
  \/ Quiescent /\ ActivateTheme(TimerTheme.name)
  \/ \E i \in 1..Len(calls) : DeactivateSettled(i, "ok")
  \/ \E i \in 1..Len(calls) : ActivateInvoke(i)
  \/ \E i \in 1..Len(calls) : ActivateSettled(i, "ok", Null)
  \/ FetchTasks
  \/ \E i \in 1..Len(requests), body \in TaskLists :
       requests[i].kind = "tasks" /\ Response(i, "ok", body, Null)
  \/ /\ last.op = "activateTheme" /\ last.sent # <<>>
     /\ ThemeChangedArrives(last.name, SettingsObject)
  \/ \E i \in 1..MaxLoads, outcome \in Outcomes : RendererModuleLoaded(i, outcome)
  \/ GetNextTask(Null)
  \/ \E themeName \in {"default", Null} :
       HandleRendererEvent(themeName, "task:next", NoSetting, Null)

SpecThemeTasks == InitThemeTasks /\ [][NextThemeTasks]_vars

\* A step of a theme's activation: of activateTheme, of the surface taking
\* the notice and loading the renderer, or of the main process handling what
\* the renderer's initialize requested.
ActivationStep ==
  \/ last'.op \in {"activateTheme", "themeChangedNotice", "rendererLoaded"}
  \/ last'.op = "todoist" /\ last'.outcome = "ipc"

\* C37: no step of a theme's activation, the renderer's load and
\* initialization included, changes the task list or currentTaskIndex.
C37_ActivationKeepsCursor ==
  [][ActivationStep => /\ todoist'.tasks = todoist.tasks
                       /\ todoist'.currentTaskIndex = todoist.currentTaskIndex]_vars


\* ------------------------------------------------- project selection's runs

\* The projects of the account and the open tasks the server lists for each
\* (all of them when no project is asked for).
Projects == {"p1", "p2"}

ProjectTasks(projectId) ==
  CASE projectId = "p1" -> <<"t1">>
    [] projectId = "p2" -> <<"t2", "t3">>
    [] OTHER            -> <<"t1", "t2", "t3">>

\* The projects response of the server.
ProjectList == <<"p1", "p2">>

\* Projects selected one after the other, each selection fetching the
\* project's tasks; the responses arrive in any order, and the cursor is
\* moved in between.  The key is set, the projects are fetched and tasks
\* are added as well.
NextProjects ==
  \/ RegisterTheme(TimerTheme, "ok")
  \/ Quiescent /\ activeTheme = Null /\ ActivateTheme(TimerTheme.name)
  \/ \E i \in 1..Len(calls) : ActivateSettled(i, "ok", Null)
  \/ \E projectId \in Projects : SelectProject(projectId)
  \/ TodoistCall("nextTask", 0, Null)
  \/ \E apiKey \in BOOLEAN : SetApiKey(apiKey)
  \/ \E apiKey \in BOOLEAN : SaveTodoistApiKey(apiKey)
  \/ FetchProjects
  \/ \E content \in {TheTask.content, NoContent} :
       AddTask(content, todoist.selectedProjectId)
  \/ \E i \in 1..Len(requests) :
       Response(i, "ok", ProjectTasks(requests[i].project), Null)
  \/ \E i \in 1..Len(requests), outcome \in FetchOutcomes :
       ProjectsResponse(i, outcome, IF outcome = "ok" THEN ProjectList ELSE <<>>,
                        Null)
  \/ \E i \in 1..Len(requests), outcome \in FetchOutcomes :
       \E bad \in {Null} \cup (IF activeTheme = Null THEN {} ELSE {"onTaskAdded"}) :
         AddResponse(i, outcome, bad)

SpecProjects == InitTasks /\ [][NextProjects]_vars

\* C38: once the responses to all fetches issued by selectProject calls have
\* arrived, in whatever order, the task list is the one the server returned
\* for the most recently issued fetch, that of the project now selected.
C38_LatestFetchWins ==
  (/\ TodoistReturned("fetchTasks")
   /\ last.outcome = "ok"
   /\ requests = <<>>)
    => todoist.tasks = ProjectTasks(todoist.selectedProjectId)


\* ------------------------------------------------- deactivated theme claims

\* C39: a theme whose deactivate() the ThemeManager has called gets no
\* published event until its activate() is called again, also for events
\* published while the deactivate() call is awaited.
C39_NoEventsAfterDeactivate ==
  last.op = "publish" =>
    \A k \in 1..Len(last.entries) : status[last.entries[k].mod] # "idle"


\* ------------------------------------------------- task completion claims

\* The latest step was the status-204 response to completeTask for the task
\* that was at the cursor of a list of two or more tasks.
CurrentTaskClosed ==
  /\ TodoistReturned("completeTask") /\ last.outcome = "ok"
  /\ Len(last.prev.tasks) >= 2
  /\ last.prev.currentTaskIndex + 1 \in DOMAIN last.prev.tasks
  /\ last.prev.tasks[last.prev.currentTaskIndex + 1] = last.arg

\* C40: the successful completion of the task at cursor i of a list of
\* n >= 2 tasks removes that task from the lists, makes the task formerly at
\* (i + 1) mod n the current one, and publishes exactly one task-completed
\* followed by exactly one tasks-loaded that carries the new list.
C40_CompletionAdvances ==
  CurrentTaskClosed =>
    /\ todoist.tasks = Remove(last.prev.tasks, last.prev.currentTaskIndex + 1)
    /\ getCurrentTask(todoist).id =
         last.prev.tasks[((last.prev.currentTaskIndex + 1) % Len(last.prev.tasks)) + 1]
    /\ EventsAt(last.events, TASK_COMPLETED) = {1}
    /\ EventsAt(last.events, TASKS_LOADED) = {2}
    /\ last.events[2].data.tasks = todoist.tasks
    /\ last.events[2].data.currentTask = getCurrentTask(todoist)

====
